---- MODULE Spec2Model ----
(***************************************************************************)
(* A model of TVM-linker's disassembler dispatch table                     *)
(* (tvm_linker/src/disasm/handlers.rs), of its assembler parser            *)
(* (tvm_linker/src/parser.rs) and of the subcommands of the console tool   *)
(* that take a contract ABI (tonlabs-cli/src/main.rs).                     *)
(***************************************************************************)
EXTENDS Integers, Sequences, FiniteSets, TLC

VARIABLES
  \* the dispatch table
  cp0,      \* the Handlers under construction by new_code_page_0, then the finished table
  built,    \* how many of new_code_page_0's fourteen steps have run
  call,     \* "idle", or "returned" after a get_handler call
  given,    \* the slice the last get_handler call was given
  rest,     \* that slice after the call
  loaded,   \* what the call returned
  \* the parser
  engine,   \* the ParseEngine
  libs,     \* the libraries given to parse, each a sequence of lines
  source,   \* the primary source given to parse, a sequence of lines
  input,    \* which input parse is reading: libs[input], or source after the libraries
  frame,    \* the running parse_code: its first_pass argument and its local variables
  outcome,  \* what parse returned, or that it is still running
  \* the console tool
  matches,  \* the ArgMatches of the subcommand: its name and its options
  config,   \* the Config read from tonlabs-cli.conf.json
  command,  \* what the subcommand returned, or that it has not run yet
  invoked   \* the calls of call_contract and deploy_contract made, in order

hvars == <<cp0, built, call, given, rest, loaded>>

pvars == <<engine, libs, source, input, frame, outcome>>

cvars == <<matches, config, command, invoked>>

vars == <<hvars, pvars, cvars>>

(***************************************************************************)
(* Part I.  The disassembler dispatch table                                *)
(* (tvm_linker/src/disasm/handlers.rs)                                     *)
(*                                                                         *)
(* A Handlers node is a record [directs, subsets]: directs maps every byte *)
(* 0..255 to a Handler, subsets is the flat list of child nodes.  A        *)
(* Handler is Direct(loader) or Subset(index); the index is 0-based as in  *)
(* the source, so child i is subsets[i + 1].  Loaders are function         *)
(* pointers in the source and are named here by their path, the generic    *)
(* instances load_add::<Signaling> and load_add::<Quiet> being two         *)
(* different pointers.  A panic of a builder is the value PANIC, which     *)
(* every later builder call of the chain passes on.                        *)
(***************************************************************************)
Byte == 0..255

Direct(handler) == [tag |-> "Direct", handler |-> handler]

Subset(index) == [tag |-> "Subset", index |-> index]

PANIC == [panic |-> TRUE]

IsPanic(self) == "panic" \in DOMAIN self

\* Handlers::new: every slot Direct(load_unknown), no subsets.
Handlers_new ==
  [directs |-> [code \in Byte |-> Direct("load_unknown")], subsets |-> <<>>]

\* register_handler writing the slot whatever it holds.
register_handler_overwriting(self, code, handler) ==
  IF IsPanic(self) THEN PANIC
  ELSE [self EXCEPT !.directs[code] = Direct(handler)]

\* Handlers::register_handler: write Direct(handler) into a slot that still
\* holds Direct(load_unknown); panic on any other occupant.
register_handler(self, code, handler) ==
  IF IsPanic(self) THEN PANIC
  ELSE IF self.directs[code].tag = "Direct"
       THEN IF self.directs[code].handler = "load_unknown"
            THEN [self EXCEPT !.directs[code] = Direct(handler)]
            ELSE PANIC
       ELSE PANIC

\* Handlers::set
set(self, code, handler) == register_handler(self, code, handler)

\* set_range that registers the handler at the first byte of the range only.
set_range_first_only(self, lo, hi, handler) ==
  IF IsPanic(self) THEN PANIC
  ELSE IF lo < hi THEN register_handler(self, lo, handler) ELSE self

\* set_range with the upper bound of the range included.
set_range_inclusive(self, lo, hi, handler) ==
  IF IsPanic(self) THEN PANIC
  ELSE IF \E code \in lo..hi : register_handler(self, code, handler) = PANIC
       THEN PANIC
       ELSE [self EXCEPT !.directs =
               [code \in Byte |->
                  IF lo <= code /\ code <= hi
                  THEN register_handler(self, code, handler).directs[code]
                  ELSE self.directs[code]]]

\* Handlers::set_range: `for code in codes` over the half-open Range<u8>
\* lo..hi, one register_handler call per code.  The loop panics at the first
\* occupied slot and otherwise has written Direct(handler) into every slot
\* of the range; a panic unwinds the whole construction, so the slots
\* written before it are never seen.
set_range(self, lo, hi, handler) ==
  IF IsPanic(self) THEN PANIC
  ELSE IF \E code \in lo..(hi - 1) : register_handler(self, code, handler) = PANIC
       THEN PANIC
       ELSE [self EXCEPT !.directs =
               [code \in Byte |->
                  IF lo <= code /\ code < hi
                  THEN register_handler(self, code, handler).directs[code]
                  ELSE self.directs[code]]]

\* add_subset with the child's position counted from 1.
add_subset_from_one(self, code, subset) ==
  IF IsPanic(self) \/ IsPanic(subset) THEN PANIC
  ELSE IF self.directs[code].tag = "Direct"
       THEN IF self.directs[code].handler = "load_unknown"
            THEN [self EXCEPT !.directs[code] = Subset(Len(self.subsets) + 1),
                              !.subsets = Append(self.subsets, subset)]
            ELSE PANIC
       ELSE PANIC

\* Handlers::add_subset: the slot must hold Direct(load_unknown); it becomes
\* Subset(self.subsets.len()) and the child is pushed onto self.subsets.
add_subset(self, code, subset) ==
  IF IsPanic(self) \/ IsPanic(subset) THEN PANIC
  ELSE IF self.directs[code].tag = "Direct"
       THEN IF self.directs[code].handler = "load_unknown"
            THEN [self EXCEPT !.directs[code] = Subset(Len(self.subsets)),
                              !.subsets = Append(self.subsets, subset)]
            ELSE PANIC
       ELSE PANIC

\* A builder chain `self.op1(..).op2(..)...`, applied left to right: ops
\* i..j of the chain applied to self; a panic ends the chain.  An add_subset
\* op carries the chain that builds its child from Handlers::new().
RECURSIVE ChainFrom(_, _, _, _)
ChainFrom(self, ops, i, j) ==
  IF i > j THEN self
  ELSE IF i = j
       THEN LET op == ops[i]
            IN CASE op[1] = "set" -> set(self, op[2], op[3])
                 [] op[1] = "set_range" -> set_range(self, op[2], op[3], op[4])
                 [] op[1] = "add_subset" ->
                      add_subset(self, op[2], ChainFrom(Handlers_new, op[3], 1, Len(op[3])))
       ELSE LET mid == (i + j) \div 2
                done == ChainFrom(self, ops, i, mid)
            IN IF IsPanic(done) THEN PANIC ELSE ChainFrom(done, ops, mid + 1, j)

Chain(self, ops) == ChainFrom(self, ops, 1, Len(ops))

\* handlers.rs:66-121: the builder chain of add_code_page_0_part_stack, in source order
add_code_page_0_part_stack_ops ==
  <<
    <<"set", \H00, "load_nop">>,
    <<"set_range", \H01, \H10, "load_xchg_simple">>,
    <<"set", \H10, "load_xchg_std">>,
    <<"set", \H11, "load_xchg_long">>,
    <<"set_range", \H12, \H20, "load_xchg_simple">>,
    <<"set_range", \H20, \H30, "load_push_simple">>,
    <<"set_range", \H30, \H40, "load_pop_simple">>,
    <<"set_range", \H40, \H50, "load_xchg3">>,
    <<"set", \H50, "load_xchg2">>,
    <<"set", \H51, "load_xcpu">>,
    <<"set", \H52, "load_puxc">>,
    <<"set", \H53, "load_push2">>,
    <<"add_subset", \H54, <<
        <<"set_range", \H00, \H10, "load_xchg3">>,
        <<"set_range", \H10, \H20, "load_xc2pu">>,
        <<"set_range", \H20, \H30, "load_xcpuxc">>,
        <<"set_range", \H30, \H40, "load_xcpu2">>,
        <<"set_range", \H40, \H50, "load_puxc2">>,
        <<"set_range", \H50, \H60, "load_puxcpu">>,
        <<"set_range", \H60, \H70, "load_pu2xc">>,
        <<"set_range", \H70, \H80, "load_push3">>
    >> >>,
    <<"set", \H55, "load_blkswap">>,
    <<"set", \H56, "load_push">>,
    <<"set", \H57, "load_pop">>,
    <<"set", \H58, "load_rot">>,
    <<"set", \H59, "load_rotrev">>,
    <<"set", \H5A, "load_swap2">>,
    <<"set", \H5B, "load_drop2">>,
    <<"set", \H5C, "load_dup2">>,
    <<"set", \H5D, "load_over2">>,
    <<"set", \H5E, "load_reverse">>,
    <<"add_subset", \H5F, <<
        <<"set_range", \H00, \H10, "load_blkdrop">>,
        <<"set_range", \H10, \HFF, "load_blkpush">>,
        <<"set", \HFF, "load_blkpush">>
    >> >>,
    <<"set", \H60, "load_pick">>,
    <<"set", \H61, "load_rollx">>,
    <<"set", \H62, "load_rollrevx">>,
    <<"set", \H63, "load_blkswx">>,
    <<"set", \H64, "load_revx">>,
    <<"set", \H65, "load_dropx">>,
    <<"set", \H66, "load_tuck">>,
    <<"set", \H67, "load_xchgx">>,
    <<"set", \H68, "load_depth">>,
    <<"set", \H69, "load_chkdepth">>,
    <<"set", \H6A, "load_onlytopx">>,
    <<"set", \H6B, "load_onlyx">>,
    <<"add_subset", \H6C, <<
        <<"set_range", \H10, \HFF, "load_blkdrop2">>,
        <<"set", \HFF, "load_blkdrop2">>
    >> >>
  >>

\* handlers.rs:123-162: the builder chain of add_code_page_0_tuple, in source order
add_code_page_0_tuple_ops ==
  <<
    <<"set", \H6D, "load_null">>,
    <<"set", \H6E, "load_isnull">>,
    <<"add_subset", \H6F, <<
        <<"set_range", \H00, \H10, "load_tuple_create">>,
        <<"set_range", \H10, \H20, "load_tuple_index">>,
        <<"set_range", \H20, \H30, "load_tuple_un">>,
        <<"set_range", \H30, \H40, "load_tuple_unpackfirst">>,
        <<"set_range", \H40, \H50, "load_tuple_explode">>,
        <<"set_range", \H50, \H60, "load_tuple_setindex">>,
        <<"set_range", \H60, \H70, "load_tuple_index_quiet">>,
        <<"set_range", \H70, \H80, "load_tuple_setindex_quiet">>,
        <<"set", \H80, "load_tuple_createvar">>,
        <<"set", \H81, "load_tuple_indexvar">>,
        <<"set", \H82, "load_tuple_untuplevar">>,
        <<"set", \H83, "load_tuple_unpackfirstvar">>,
        <<"set", \H84, "load_tuple_explodevar">>,
        <<"set", \H85, "load_tuple_setindexvar">>,
        <<"set", \H86, "load_tuple_indexvar_quiet">>,
        <<"set", \H87, "load_tuple_setindexvar_quiet">>,
        <<"set", \H88, "load_tuple_len">>,
        <<"set", \H89, "load_tuple_len_quiet">>,
        <<"set", \H8A, "load_istuple">>,
        <<"set", \H8B, "load_tuple_last">>,
        <<"set", \H8C, "load_tuple_push">>,
        <<"set", \H8D, "load_tuple_pop">>,
        <<"set", \HA0, "load_nullswapif">>,
        <<"set", \HA1, "load_nullswapifnot">>,
        <<"set", \HA2, "load_nullrotrif">>,
        <<"set", \HA3, "load_nullrotrifnot">>,
        <<"set", \HA4, "load_nullswapif2">>,
        <<"set", \HA5, "load_nullswapifnot2">>,
        <<"set", \HA6, "load_nullrotrif2">>,
        <<"set", \HA7, "load_nullrotrifnot2">>,
        <<"set_range", \HB0, \HC0, "load_tuple_index2">>,
        <<"set_range", \HC0, \HFF, "load_tuple_index3">>,
        <<"set", \HFF, "load_tuple_index3">>
    >> >>
  >>

\* handlers.rs:164-182: the builder chain of add_code_page_0_part_constant, in source order
add_code_page_0_part_constant_ops ==
  <<
    <<"set_range", \H70, \H82, "load_pushint">>,
    <<"set", \H82, "load_pushint_big">>,
    <<"add_subset", \H83, <<
        <<"set_range", \H00, \HFF, "load_pushpow2">>,
        <<"set", \HFF, "load_pushnan">>
    >> >>,
    <<"set", \H84, "load_pushpow2dec">>,
    <<"set", \H85, "load_pushnegpow2">>,
    <<"set", \H88, "load_pushref">>,
    <<"set", \H89, "load_pushrefslice">>,
    <<"set", \H8A, "load_pushrefcont">>,
    <<"set", \H8B, "load_pushslice_short">>,
    <<"set", \H8C, "load_pushslice_mid">>,
    <<"set", \H8D, "load_pushslice_long">>,
    <<"set_range", \H8E, \H90, "load_pushcont_long">>,
    <<"set_range", \H90, \HA0, "load_pushcont_short">>
  >>

\* handlers.rs:184-262: the builder chain of add_code_page_0_arithmetic, in source order
add_code_page_0_arithmetic_ops ==
  <<
    <<"set", \HA0, "load_add::<Signaling>">>,
    <<"set", \HA1, "load_sub::<Signaling>">>,
    <<"set", \HA2, "load_subr::<Signaling>">>,
    <<"set", \HA3, "load_negate::<Signaling>">>,
    <<"set", \HA4, "load_inc::<Signaling>">>,
    <<"set", \HA5, "load_dec::<Signaling>">>,
    <<"set", \HA6, "load_addconst::<Signaling>">>,
    <<"set", \HA7, "load_mulconst::<Signaling>">>,
    <<"set", \HA8, "load_mul::<Signaling>">>,
    <<"set", \HA9, "load_divmod::<Signaling>">>,
    <<"set", \HAA, "load_lshift::<Signaling>">>,
    <<"set", \HAB, "load_rshift::<Signaling>">>,
    <<"set", \HAC, "load_lshift::<Signaling>">>,
    <<"set", \HAD, "load_rshift::<Signaling>">>,
    <<"set", \HAE, "load_pow2::<Signaling>">>,
    <<"set", \HB0, "load_and::<Signaling>">>,
    <<"set", \HB1, "load_or::<Signaling>">>,
    <<"set", \HB2, "load_xor::<Signaling>">>,
    <<"set", \HB3, "load_not::<Signaling>">>,
    <<"set", \HB4, "load_fits::<Signaling>">>,
    <<"set", \HB5, "load_ufits::<Signaling>">>,
    <<"add_subset", \HB6, <<
        <<"set", \H00, "load_fitsx::<Signaling>">>,
        <<"set", \H01, "load_ufitsx::<Signaling>">>,
        <<"set", \H02, "load_bitsize::<Signaling>">>,
        <<"set", \H03, "load_ubitsize::<Signaling>">>,
        <<"set", \H08, "load_min::<Signaling>">>,
        <<"set", \H09, "load_max::<Signaling>">>,
        <<"set", \H0A, "load_minmax::<Signaling>">>,
        <<"set", \H0B, "load_abs::<Signaling>">>
    >> >>,
    <<"add_subset", \HB7, <<
        <<"set", \HA0, "load_add::<Quiet>">>,
        <<"set", \HA1, "load_sub::<Quiet>">>,
        <<"set", \HA2, "load_subr::<Quiet>">>,
        <<"set", \HA3, "load_negate::<Quiet>">>,
        <<"set", \HA4, "load_inc::<Quiet>">>,
        <<"set", \HA5, "load_dec::<Quiet>">>,
        <<"set", \HA6, "load_addconst::<Quiet>">>,
        <<"set", \HA7, "load_mulconst::<Quiet>">>,
        <<"set", \HA8, "load_mul::<Quiet>">>,
        <<"set", \HA9, "load_divmod::<Quiet>">>,
        <<"set", \HAA, "load_lshift::<Quiet>">>,
        <<"set", \HAB, "load_rshift::<Quiet>">>,
        <<"set", \HAC, "load_lshift::<Quiet>">>,
        <<"set", \HAD, "load_rshift::<Quiet>">>,
        <<"set", \HAE, "load_pow2::<Quiet>">>,
        <<"set", \HB0, "load_and::<Quiet>">>,
        <<"set", \HB1, "load_or::<Quiet>">>,
        <<"set", \HB2, "load_xor::<Quiet>">>,
        <<"set", \HB3, "load_not::<Quiet>">>,
        <<"set", \HB4, "load_fits::<Quiet>">>,
        <<"set", \HB5, "load_ufits::<Quiet>">>,
        <<"add_subset", \HB6, <<
            <<"set", \H00, "load_fitsx::<Quiet>">>,
            <<"set", \H01, "load_ufitsx::<Quiet>">>,
            <<"set", \H02, "load_bitsize::<Quiet>">>,
            <<"set", \H03, "load_ubitsize::<Quiet>">>,
            <<"set", \H08, "load_min::<Quiet>">>,
            <<"set", \H09, "load_max::<Quiet>">>,
            <<"set", \H0A, "load_minmax::<Quiet>">>,
            <<"set", \H0B, "load_abs::<Quiet>">>
        >> >>,
        <<"set", \HB8, "load_sgn::<Quiet>">>,
        <<"set", \HB9, "load_less::<Quiet>">>,
        <<"set", \HBA, "load_equal::<Quiet>">>,
        <<"set", \HBB, "load_leq::<Quiet>">>,
        <<"set", \HBC, "load_greater::<Quiet>">>,
        <<"set", \HBD, "load_neq::<Quiet>">>,
        <<"set", \HBE, "load_geq::<Quiet>">>,
        <<"set", \HBF, "load_cmp::<Quiet>">>,
        <<"set", \HC0, "load_eqint::<Quiet>">>,
        <<"set", \HC1, "load_lessint::<Quiet>">>,
        <<"set", \HC2, "load_gtint::<Quiet>">>,
        <<"set", \HC3, "load_neqint::<Quiet>">>
    >> >>
  >>

\* handlers.rs:264-300: the builder chain of add_code_page_0_comparsion, in source order
add_code_page_0_comparsion_ops ==
  <<
    <<"set", \HB8, "load_sgn::<Signaling>">>,
    <<"set", \HB9, "load_less::<Signaling>">>,
    <<"set", \HBA, "load_equal::<Signaling>">>,
    <<"set", \HBB, "load_leq::<Signaling>">>,
    <<"set", \HBC, "load_greater::<Signaling>">>,
    <<"set", \HBD, "load_neq::<Signaling>">>,
    <<"set", \HBE, "load_geq::<Signaling>">>,
    <<"set", \HBF, "load_cmp::<Signaling>">>,
    <<"set", \HC0, "load_eqint::<Signaling>">>,
    <<"set", \HC1, "load_lessint::<Signaling>">>,
    <<"set", \HC2, "load_gtint::<Signaling>">>,
    <<"set", \HC3, "load_neqint::<Signaling>">>,
    <<"set", \HC4, "load_isnan">>,
    <<"set", \HC5, "load_chknan">>,
    <<"add_subset", \HC7, <<
        <<"set", \H00, "load_sempty">>,
        <<"set", \H01, "load_sdempty">>,
        <<"set", \H02, "load_srempty">>,
        <<"set", \H03, "load_sdfirst">>,
        <<"set", \H04, "load_sdlexcmp">>,
        <<"set", \H05, "load_sdeq">>,
        <<"set", \H08, "load_sdpfx">>,
        <<"set", \H09, "load_sdpfxrev">>,
        <<"set", \H0A, "load_sdppfx">>,
        <<"set", \H0B, "load_sdppfxrev">>,
        <<"set", \H0C, "load_sdsfx">>,
        <<"set", \H0D, "load_sdsfxrev">>,
        <<"set", \H0E, "load_sdpsfx">>,
        <<"set", \H0F, "load_sdpsfxrev">>,
        <<"set", \H10, "load_sdcntlead0">>,
        <<"set", \H11, "load_sdcntlead1">>,
        <<"set", \H12, "load_sdcnttrail0">>,
        <<"set", \H13, "load_sdcnttrail1">>
    >> >>
  >>

\* handlers.rs:302-458: the builder chain of add_code_page_0_cell, in source order
add_code_page_0_cell_ops ==
  <<
    <<"set", \HC8, "load_newc">>,
    <<"set", \HC9, "load_endc">>,
    <<"set", \HCA, "load_sti">>,
    <<"set", \HCB, "load_stu">>,
    <<"set", \HCC, "load_stref">>,
    <<"set", \HCD, "load_endcst">>,
    <<"set", \HCE, "load_stslice">>,
    <<"add_subset", \HCF, <<
        <<"set", \H00, "load_stix">>,
        <<"set", \H01, "load_stux">>,
        <<"set", \H02, "load_stixr">>,
        <<"set", \H03, "load_stuxr">>,
        <<"set", \H04, "load_stixq">>,
        <<"set", \H05, "load_stuxq">>,
        <<"set", \H06, "load_stixrq">>,
        <<"set", \H07, "load_stuxrq">>,
        <<"set", \H08, "load_sti">>,
        <<"set", \H09, "load_stu">>,
        <<"set", \H0A, "load_stir">>,
        <<"set", \H0B, "load_stur">>,
        <<"set", \H0C, "load_stiq">>,
        <<"set", \H0D, "load_stuq">>,
        <<"set", \H0E, "load_stirq">>,
        <<"set", \H0F, "load_sturq">>,
        <<"set", \H10, "load_stref">>,
        <<"set", \H11, "load_stbref">>,
        <<"set", \H12, "load_stslice">>,
        <<"set", \H13, "load_stb">>,
        <<"set", \H14, "load_strefr">>,
        <<"set", \H15, "load_endcst">>,
        <<"set", \H16, "load_stslicer">>,
        <<"set", \H17, "load_stbr">>,
        <<"set", \H18, "load_strefq">>,
        <<"set", \H19, "load_stbrefq">>,
        <<"set", \H1A, "load_stsliceq">>,
        <<"set", \H1B, "load_stbq">>,
        <<"set", \H1C, "load_strefrq">>,
        <<"set", \H1D, "load_stbrefrq">>,
        <<"set", \H1E, "load_stslicerq">>,
        <<"set", \H1F, "load_stbrq">>,
        <<"set", \H20, "load_strefconst">>,
        <<"set", \H21, "load_stref2const">>,
        <<"set", \H23, "load_endxc">>,
        <<"set", \H28, "load_stile4">>,
        <<"set", \H29, "load_stule4">>,
        <<"set", \H2A, "load_stile8">>,
        <<"set", \H2B, "load_stule8">>,
        <<"set", \H30, "load_bdepth">>,
        <<"set", \H31, "load_bbits">>,
        <<"set", \H32, "load_brefs">>,
        <<"set", \H33, "load_bbitrefs">>,
        <<"set", \H35, "load_brembits">>,
        <<"set", \H36, "load_bremrefs">>,
        <<"set", \H37, "load_brembitrefs">>,
        <<"set", \H38, "load_bchkbits_short">>,
        <<"set", \H39, "load_bchkbits_long">>,
        <<"set", \H3A, "load_bchkrefs">>,
        <<"set", \H3B, "load_bchkbitrefs">>,
        <<"set", \H3C, "load_bchkbitsq_short">>,
        <<"set", \H3D, "load_bchkbitsq_long">>,
        <<"set", \H3E, "load_bchkrefsq">>,
        <<"set", \H3F, "load_bchkbitrefsq">>,
        <<"set", \H40, "load_stzeroes">>,
        <<"set", \H41, "load_stones">>,
        <<"set", \H42, "load_stsame">>,
        <<"set_range", \H80, \HFF, "load_stsliceconst">>,
        <<"set", \HFF, "load_stsliceconst">>
    >> >>,
    <<"set", \HD0, "load_ctos">>,
    <<"set", \HD1, "load_ends">>,
    <<"set", \HD2, "load_ldi">>,
    <<"set", \HD3, "load_ldu">>,
    <<"set", \HD4, "load_ldref">>,
    <<"set", \HD5, "load_ldrefrtos">>,
    <<"set", \HD6, "load_ldslice">>,
    <<"add_subset", \HD7, <<
        <<"set", \H00, "load_ldix">>,
        <<"set", \H01, "load_ldux">>,
        <<"set", \H02, "load_pldix">>,
        <<"set", \H03, "load_pldux">>,
        <<"set", \H04, "load_ldixq">>,
        <<"set", \H05, "load_lduxq">>,
        <<"set", \H06, "load_pldixq">>,
        <<"set", \H07, "load_plduxq">>,
        <<"set", \H08, "load_ldi">>,
        <<"set", \H09, "load_ldu">>,
        <<"set", \H0A, "load_pldi">>,
        <<"set", \H0B, "load_pldu">>,
        <<"set", \H0C, "load_ldiq">>,
        <<"set", \H0D, "load_lduq">>,
        <<"set", \H0E, "load_pldiq">>,
        <<"set", \H0F, "load_plduq">>,
        <<"set_range", \H10, \H18, "load_plduz">>,
        <<"set", \H18, "load_ldslicex">>,
        <<"set", \H19, "load_pldslicex">>,
        <<"set", \H1A, "load_ldslicexq">>,
        <<"set", \H1B, "load_pldslicexq">>,
        <<"set", \H1C, "load_ldslice">>,
        <<"set", \H1D, "load_pldslice">>,
        <<"set", \H1E, "load_ldsliceq">>,
        <<"set", \H1F, "load_pldsliceq">>,
        <<"set", \H20, "load_pldslicex">>,
        <<"set", \H21, "load_sdskipfirst">>,
        <<"set", \H22, "load_sdcutlast">>,
        <<"set", \H23, "load_sdskiplast">>,
        <<"set", \H24, "load_sdsubstr">>,
        <<"set", \H26, "load_sdbeginsx">>,
        <<"set", \H27, "load_sdbeginsxq">>,
        <<"set_range", \H28, \H2C, "load_sdbegins">>,
        <<"set_range", \H2C, \H30, "load_sdbeginsq">>,
        <<"set", \H30, "load_scutfirst">>,
        <<"set", \H31, "load_sskipfirst">>,
        <<"set", \H32, "load_scutlast">>,
        <<"set", \H33, "load_sskiplast">>,
        <<"set", \H34, "load_subslice">>,
        <<"set", \H36, "load_split">>,
        <<"set", \H37, "load_splitq">>,
        <<"set", \H39, "load_xctos">>,
        <<"set", \H3A, "load_xload">>,
        <<"set", \H3B, "load_xloadq">>,
        <<"set", \H41, "load_schkbits">>,
        <<"set", \H42, "load_schkrefs">>,
        <<"set", \H43, "load_schkbitrefs">>,
        <<"set", \H45, "load_schkbitsq">>,
        <<"set", \H46, "load_schkrefsq">>,
        <<"set", \H47, "load_schkbitrefsq">>,
        <<"set", \H48, "load_pldrefvar">>,
        <<"set", \H49, "load_sbits">>,
        <<"set", \H4A, "load_srefs">>,
        <<"set", \H4B, "load_sbitrefs">>,
        <<"set", \H4C, "load_pldref">>,
        <<"set_range", \H4D, \H50, "load_pldrefidx">>,
        <<"set", \H50, "load_ldile4">>,
        <<"set", \H51, "load_ldule4">>,
        <<"set", \H52, "load_ldile8">>,
        <<"set", \H53, "load_ldule8">>,
        <<"set", \H54, "load_pldile4">>,
        <<"set", \H55, "load_pldule4">>,
        <<"set", \H56, "load_pldile8">>,
        <<"set", \H57, "load_pldule8">>,
        <<"set", \H58, "load_ldile4q">>,
        <<"set", \H59, "load_ldule4q">>,
        <<"set", \H5A, "load_ldile8q">>,
        <<"set", \H5B, "load_ldule8q">>,
        <<"set", \H5C, "load_pldile4q">>,
        <<"set", \H5D, "load_pldule4q">>,
        <<"set", \H5E, "load_pldile8q">>,
        <<"set", \H5F, "load_pldule8q">>,
        <<"set", \H60, "load_ldzeroes">>,
        <<"set", \H61, "load_ldones">>,
        <<"set", \H62, "load_ldsame">>,
        <<"set", \H64, "load_sdepth">>,
        <<"set", \H65, "load_cdepth">>
    >> >>
  >>

\* handlers.rs:460-565: the builder chain of add_code_page_0_control_flow, in source order
add_code_page_0_control_flow_ops ==
  <<
    <<"set", \HD8, "load_callx">>,
    <<"set", \HD9, "load_jmpx">>,
    <<"set", \HDA, "load_callxargs">>,
    <<"add_subset", \HDB, <<
        <<"set_range", \H00, \H10, "load_callxargs">>,
        <<"set_range", \H10, \H20, "load_jmpxargs">>,
        <<"set_range", \H20, \H30, "load_retargs">>,
        <<"set", \H30, "load_ret">>,
        <<"set", \H31, "load_retalt">>,
        <<"set", \H32, "load_retbool">>,
        <<"set", \H34, "load_callcc">>,
        <<"set", \H35, "load_jmpxdata">>,
        <<"set", \H36, "load_callccargs">>,
        <<"set", \H38, "load_callxva">>,
        <<"set", \H39, "load_retva">>,
        <<"set", \H3A, "load_jmpxva">>,
        <<"set", \H3B, "load_callccva">>,
        <<"set", \H3C, "load_callref">>,
        <<"set", \H3D, "load_jmpref">>,
        <<"set", \H3E, "load_jmprefdata">>,
        <<"set", \H3F, "load_retdata">>
    >> >>,
    <<"set", \HDE, "load_if">>,
    <<"set", \HDC, "load_ifret">>,
    <<"set", \HDD, "load_ifnotret">>,
    <<"set", \HDF, "load_ifnot">>,
    <<"set", \HE0, "load_ifjmp">>,
    <<"set", \HE1, "load_ifnotjmp">>,
    <<"set", \HE2, "load_ifelse">>,
    <<"add_subset", \HE3, <<
        <<"set", \H00, "load_ifref">>,
        <<"set", \H01, "load_ifnotref">>,
        <<"set", \H02, "load_ifjmpref">>,
        <<"set", \H03, "load_ifnotjmpref">>,
        <<"set", \H04, "load_condsel">>,
        <<"set", \H05, "load_condselchk">>,
        <<"set", \H08, "load_ifretalt">>,
        <<"set", \H09, "load_ifnotretalt">>,
        <<"set", \H0D, "load_ifrefelse">>,
        <<"set", \H0E, "load_ifelseref">>,
        <<"set", \H0F, "load_ifrefelseref">>,
        <<"set", \H14, "load_repeat_break">>,
        <<"set", \H15, "load_repeatend_break">>,
        <<"set", \H16, "load_until_break">>,
        <<"set", \H17, "load_untilend_break">>,
        <<"set", \H18, "load_while_break">>,
        <<"set", \H19, "load_whileend_break">>,
        <<"set", \H1A, "load_again_break">>,
        <<"set", \H1B, "load_againend_break">>,
        <<"set_range", \H80, \HA0, "load_ifbitjmp">>,
        <<"set_range", \HA0, \HC0, "load_ifnbitjmp">>,
        <<"set_range", \HC0, \HE0, "load_ifbitjmpref">>,
        <<"set_range", \HE0, \HFF, "load_ifnbitjmpref">>,
        <<"set", \HFF, "load_ifnbitjmpref">>
    >> >>,
    <<"set", \HE4, "load_repeat">>,
    <<"set", \HE5, "load_repeatend">>,
    <<"set", \HE6, "load_until">>,
    <<"set", \HE7, "load_untilend">>,
    <<"set", \HE8, "load_while">>,
    <<"set", \HE9, "load_whileend">>,
    <<"set", \HEA, "load_again">>,
    <<"set", \HEB, "load_againend">>,
    <<"set", \HEC, "load_setcontargs">>,
    <<"add_subset", \HED, <<
        <<"set_range", \H00, \H10, "load_returnargs">>,
        <<"set", \H10, "load_returnva">>,
        <<"set", \H11, "load_setcontva">>,
        <<"set", \H12, "load_setnumva">>,
        <<"set", \H1E, "load_bless">>,
        <<"set", \H1F, "load_blessva">>,
        <<"set_range", \H40, \H50, "load_pushctr">>,
        <<"set_range", \H50, \H60, "load_popctr">>,
        <<"set_range", \H60, \H70, "load_setcontctr">>,
        <<"set_range", \H70, \H80, "load_setretctr">>,
        <<"set_range", \H80, \H90, "load_setaltctr">>,
        <<"set_range", \H90, \HA0, "load_popsave">>,
        <<"set_range", \HA0, \HB0, "load_save">>,
        <<"set_range", \HB0, \HC0, "load_savealt">>,
        <<"set_range", \HC0, \HD0, "load_saveboth">>,
        <<"set", \HE0, "load_pushctrx">>,
        <<"set", \HE1, "load_popctrx">>,
        <<"set", \HE2, "load_setcontctrx">>,
        <<"set", \HF0, "load_compos">>,
        <<"set", \HF1, "load_composalt">>,
        <<"set", \HF2, "load_composboth">>,
        <<"set", \HF3, "load_atexit">>,
        <<"set", \HF4, "load_atexitalt">>,
        <<"set", \HF5, "load_setexitalt">>,
        <<"set", \HF6, "load_thenret">>,
        <<"set", \HF7, "load_thenretalt">>,
        <<"set", \HF8, "load_invert">>,
        <<"set", \HF9, "load_booleval">>,
        <<"set", \HFA, "load_samealt">>,
        <<"set", \HFB, "load_samealt_save">>
    >> >>,
    <<"set", \HEE, "load_blessargs">>,
    <<"set", \HF0, "load_call_short">>,
    <<"add_subset", \HF1, <<
        <<"set_range", \H00, \H40, "load_call_long">>,
        <<"set_range", \H40, \H80, "load_jmp">>,
        <<"set_range", \H80, \HC0, "load_prepare">>
    >> >>
  >>

\* handlers.rs:567-588: the builder chain of add_code_page_0_exceptions, in source order
add_code_page_0_exceptions_ops ==
  <<
    <<"add_subset", \HF2, <<
        <<"set_range", \H00, \H40, "load_throw_short">>,
        <<"set_range", \H40, \H80, "load_throwif_short">>,
        <<"set_range", \H80, \HC0, "load_throwifnot_short">>,
        <<"set_range", \HC0, \HC8, "load_throw_long">>,
        <<"set_range", \HC8, \HD0, "load_throwarg">>,
        <<"set_range", \HD0, \HD8, "load_throwif_long">>,
        <<"set_range", \HD8, \HE0, "load_throwargif">>,
        <<"set_range", \HE0, \HE8, "load_throwifnot_long">>,
        <<"set_range", \HE8, \HF0, "load_throwargifnot">>,
        <<"set", \HF0, "load_throwany">>,
        <<"set", \HF1, "load_throwargany">>,
        <<"set", \HF2, "load_throwanyif">>,
        <<"set", \HF3, "load_throwarganyif">>,
        <<"set", \HF4, "load_throwanyifnot">>,
        <<"set", \HF5, "load_throwarganyifnot">>,
        <<"set", \HFF, "load_try">>
    >> >>,
    <<"set", \HF3, "load_tryargs">>
  >>

\* handlers.rs:620-768: the builder chain of add_code_page_0_dictionaries, in source order
add_code_page_0_dictionaries_ops ==
  <<
    <<"add_subset", \HF4, <<
        <<"set", \H00, "load_stdict">>,
        <<"set", \H01, "load_skipdict">>,
        <<"set", \H02, "load_lddicts">>,
        <<"set", \H03, "load_plddicts">>,
        <<"set", \H04, "load_lddict">>,
        <<"set", \H05, "load_plddict">>,
        <<"set", \H06, "load_lddictq">>,
        <<"set", \H07, "load_plddictq">>,
        <<"set", \H0A, "load_dictget">>,
        <<"set", \H0B, "load_dictgetref">>,
        <<"set", \H0C, "load_dictiget">>,
        <<"set", \H0D, "load_dictigetref">>,
        <<"set", \H0E, "load_dictuget">>,
        <<"set", \H0F, "load_dictugetref">>,
        <<"set", \H12, "load_dictset">>,
        <<"set", \H13, "load_dictsetref">>,
        <<"set", \H14, "load_dictiset">>,
        <<"set", \H15, "load_dictisetref">>,
        <<"set", \H16, "load_dictuset">>,
        <<"set", \H17, "load_dictusetref">>,
        <<"set", \H1A, "load_dictsetget">>,
        <<"set", \H1B, "load_dictsetgetref">>,
        <<"set", \H1C, "load_dictisetget">>,
        <<"set", \H1D, "load_dictisetgetref">>,
        <<"set", \H1E, "load_dictusetget">>,
        <<"set", \H1F, "load_dictusetgetref">>,
        <<"set", \H22, "load_dictreplace">>,
        <<"set", \H23, "load_dictreplaceref">>,
        <<"set", \H24, "load_dictireplace">>,
        <<"set", \H25, "load_dictireplaceref">>,
        <<"set", \H26, "load_dictureplace">>,
        <<"set", \H27, "load_dictureplaceref">>,
        <<"set", \H2A, "load_dictreplaceget">>,
        <<"set", \H2B, "load_dictreplacegetref">>,
        <<"set", \H2C, "load_dictireplaceget">>,
        <<"set", \H2D, "load_dictireplacegetref">>,
        <<"set", \H2E, "load_dictureplaceget">>,
        <<"set", \H2F, "load_dictureplacegetref">>,
        <<"set", \H32, "load_dictadd">>,
        <<"set", \H33, "load_dictaddref">>,
        <<"set", \H34, "load_dictiadd">>,
        <<"set", \H35, "load_dictiaddref">>,
        <<"set", \H36, "load_dictuadd">>,
        <<"set", \H37, "load_dictuaddref">>,
        <<"set", \H3A, "load_dictaddget">>,
        <<"set", \H3B, "load_dictaddgetref">>,
        <<"set", \H3C, "load_dictiaddget">>,
        <<"set", \H3D, "load_dictiaddgetref">>,
        <<"set", \H3E, "load_dictuaddget">>,
        <<"set", \H3F, "load_dictuaddgetref">>,
        <<"set", \H41, "load_dictsetb">>,
        <<"set", \H42, "load_dictisetb">>,
        <<"set", \H43, "load_dictusetb">>,
        <<"set", \H45, "load_dictsetgetb">>,
        <<"set", \H46, "load_dictisetgetb">>,
        <<"set", \H47, "load_dictusetgetb">>,
        <<"set", \H49, "load_dictreplaceb">>,
        <<"set", \H4A, "load_dictireplaceb">>,
        <<"set", \H4B, "load_dictureplaceb">>,
        <<"set", \H4D, "load_dictreplacegetb">>,
        <<"set", \H4E, "load_dictireplacegetb">>,
        <<"set", \H4F, "load_dictureplacegetb">>,
        <<"set", \H51, "load_dictaddb">>,
        <<"set", \H52, "load_dictiaddb">>,
        <<"set", \H53, "load_dictuaddb">>,
        <<"set", \H55, "load_dictaddgetb">>,
        <<"set", \H56, "load_dictiaddgetb">>,
        <<"set", \H57, "load_dictuaddgetb">>,
        <<"set", \H59, "load_dictdel">>,
        <<"set", \H5A, "load_dictidel">>,
        <<"set", \H5B, "load_dictudel">>,
        <<"set", \H62, "load_dictdelget">>,
        <<"set", \H63, "load_dictdelgetref">>,
        <<"set", \H64, "load_dictidelget">>,
        <<"set", \H65, "load_dictidelgetref">>,
        <<"set", \H66, "load_dictudelget">>,
        <<"set", \H67, "load_dictudelgetref">>,
        <<"set", \H69, "load_dictgetoptref">>,
        <<"set", \H6A, "load_dictigetoptref">>,
        <<"set", \H6B, "load_dictugetoptref">>,
        <<"set", \H6D, "load_dictsetgetoptref">>,
        <<"set", \H6E, "load_dictisetgetoptref">>,
        <<"set", \H6F, "load_dictusetgetoptref">>,
        <<"set", \H70, "load_pfxdictset">>,
        <<"set", \H71, "load_pfxdictreplace">>,
        <<"set", \H72, "load_pfxdictadd">>,
        <<"set", \H73, "load_pfxdictdel">>,
        <<"set", \H74, "load_dictgetnext">>,
        <<"set", \H75, "load_dictgetnexteq">>,
        <<"set", \H76, "load_dictgetprev">>,
        <<"set", \H77, "load_dictgetpreveq">>,
        <<"set", \H78, "load_dictigetnext">>,
        <<"set", \H79, "load_dictigetnexteq">>,
        <<"set", \H7A, "load_dictigetprev">>,
        <<"set", \H7B, "load_dictigetpreveq">>,
        <<"set", \H7C, "load_dictugetnext">>,
        <<"set", \H7D, "load_dictugetnexteq">>,
        <<"set", \H7E, "load_dictugetprev">>,
        <<"set", \H7F, "load_dictugetpreveq">>,
        <<"set", \H82, "load_dictmin">>,
        <<"set", \H83, "load_dictminref">>,
        <<"set", \H84, "load_dictimin">>,
        <<"set", \H85, "load_dictiminref">>,
        <<"set", \H86, "load_dictumin">>,
        <<"set", \H87, "load_dictuminref">>,
        <<"set", \H8A, "load_dictmax">>,
        <<"set", \H8B, "load_dictmaxref">>,
        <<"set", \H8C, "load_dictimax">>,
        <<"set", \H8D, "load_dictimaxref">>,
        <<"set", \H8E, "load_dictumax">>,
        <<"set", \H8F, "load_dictumaxref">>,
        <<"set", \H92, "load_dictremmin">>,
        <<"set", \H93, "load_dictremminref">>,
        <<"set", \H94, "load_dictiremmin">>,
        <<"set", \H95, "load_dictiremminref">>,
        <<"set", \H96, "load_dicturemmin">>,
        <<"set", \H97, "load_dicturemminref">>,
        <<"set", \H9A, "load_dictremmax">>,
        <<"set", \H9B, "load_dictremmaxref">>,
        <<"set", \H9C, "load_dictiremmax">>,
        <<"set", \H9D, "load_dictiremmaxref">>,
        <<"set", \H9E, "load_dicturemmax">>,
        <<"set", \H9F, "load_dicturemmaxref">>,
        <<"set", \HA0, "load_dictigetjmp">>,
        <<"set", \HA1, "load_dictugetjmp">>,
        <<"set", \HA2, "load_dictigetexec">>,
        <<"set", \HA3, "load_dictugetexec">>,
        <<"set_range", \HA4, \HA8, "load_dictpushconst">>,
        <<"set", \HA8, "load_pfxdictgetq">>,
        <<"set", \HA9, "load_pfxdictget">>,
        <<"set", \HAA, "load_pfxdictgetjmp">>,
        <<"set", \HAB, "load_pfxdictgetexec">>,
        <<"set_range", \HAC, \HAF, "load_pfxdictswitch">>,
        <<"set", \HAF, "load_pfxdictswitch">>,
        <<"set", \HB1, "load_subdictget">>,
        <<"set", \HB2, "load_subdictiget">>,
        <<"set", \HB3, "load_subdictuget">>,
        <<"set", \HB5, "load_subdictrpget">>,
        <<"set", \HB6, "load_subdictirpget">>,
        <<"set", \HB7, "load_subdicturpget">>,
        <<"set", \HBC, "load_dictigetjmpz">>,
        <<"set", \HBD, "load_dictugetjmpz">>,
        <<"set", \HBE, "load_dictigetexecz">>,
        <<"set", \HBF, "load_dictugetexecz">>
    >> >>
  >>

\* handlers.rs:770-803: the builder chain of add_code_page_0_gas_rand_config, in source order
add_code_page_0_gas_rand_config_ops ==
  <<
    <<"add_subset", \HF8, <<
        <<"set", \H00, "load_accept">>,
        <<"set", \H01, "load_setgaslimit">>,
        <<"set", \H02, "load_buygas">>,
        <<"set", \H04, "load_gramtogas">>,
        <<"set", \H05, "load_gastogram">>,
        <<"set", \H0F, "load_commit">>,
        <<"set", \H10, "load_randu256">>,
        <<"set", \H11, "load_rand">>,
        <<"set", \H14, "load_setrand">>,
        <<"set", \H15, "load_addrand">>,
        <<"set", \H20, "load_getparam">>,
        <<"set", \H21, "load_getparam">>,
        <<"set", \H22, "load_getparam">>,
        <<"set", \H23, "load_now">>,
        <<"set", \H24, "load_blocklt">>,
        <<"set", \H25, "load_ltime">>,
        <<"set", \H26, "load_randseed">>,
        <<"set", \H27, "load_balance">>,
        <<"set", \H28, "load_my_addr">>,
        <<"set", \H29, "load_config_root">>,
        <<"set", \H30, "load_config_dict">>,
        <<"set", \H32, "load_config_ref_param">>,
        <<"set", \H33, "load_config_opt_param">>,
        <<"set", \H40, "load_getglobvar">>,
        <<"set_range", \H41, \H5F, "load_getglob">>,
        <<"set", \H5F, "load_getglob">>,
        <<"set", \H60, "load_setglobvar">>,
        <<"set_range", \H61, \H7F, "load_setglob">>,
        <<"set", \H7F, "load_setglob">>
    >> >>
  >>

\* handlers.rs:590-618: the builder chain of add_code_page_0_blockchain, in source order
add_code_page_0_blockchain_ops ==
  <<
    <<"add_subset", \HFA, <<
        <<"set", \H00, "load_ldgrams">>,
        <<"set", \H01, "load_ldvarint16">>,
        <<"set", \H02, "load_stgrams">>,
        <<"set", \H03, "load_stvarint16">>,
        <<"set", \H04, "load_ldvaruint32">>,
        <<"set", \H05, "load_ldvarint32">>,
        <<"set", \H06, "load_stvaruint32">>,
        <<"set", \H07, "load_stvarint32">>,
        <<"set", \H40, "load_ldmsgaddr::<Signaling>">>,
        <<"set", \H41, "load_ldmsgaddr::<Quiet>">>,
        <<"set", \H42, "load_parsemsgaddr::<Signaling>">>,
        <<"set", \H43, "load_parsemsgaddr::<Quiet>">>,
        <<"set", \H44, "load_rewrite_std_addr::<Signaling>">>,
        <<"set", \H45, "load_rewrite_std_addr::<Quiet>">>,
        <<"set", \H46, "load_rewrite_var_addr::<Signaling>">>,
        <<"set", \H47, "load_rewrite_var_addr::<Quiet>">>
    >> >>,
    <<"add_subset", \HFB, <<
        <<"set", \H00, "load_sendrawmsg">>,
        <<"set", \H02, "load_rawreserve">>,
        <<"set", \H03, "load_rawreservex">>,
        <<"set", \H04, "load_setcode">>,
        <<"set", \H06, "load_setlibcode">>,
        <<"set", \H07, "load_changelib">>
    >> >>
  >>

\* handlers.rs:805-818: the builder chain of add_code_page_0_crypto, in source order
add_code_page_0_crypto_ops ==
  <<
    <<"add_subset", \HF9, <<
        <<"set", \H00, "load_hashcu">>,
        <<"set", \H01, "load_hashsu">>,
        <<"set", \H02, "load_sha256u">>,
        <<"set", \H10, "load_chksignu">>,
        <<"set", \H11, "load_chksigns">>,
        <<"set", \H40, "load_cdatasizeq">>,
        <<"set", \H41, "load_cdatasize">>,
        <<"set", \H42, "load_sdatasizeq">>,
        <<"set", \H43, "load_sdatasize">>
    >> >>
  >>

\* handlers.rs:820-837: the builder chain of add_code_page_0_debug, in source order
add_code_page_0_debug_ops ==
  <<
    <<"add_subset", \HFE, <<
        <<"set", \H00, "load_dump_stack">>,
        <<"set_range", \H01, \H0F, "load_dump_stack_top">>,
        <<"set", \H10, "load_dump_hex">>,
        <<"set", \H11, "load_print_hex">>,
        <<"set", \H12, "load_dump_bin">>,
        <<"set", \H13, "load_print_bin">>,
        <<"set", \H14, "load_dump_str">>,
        <<"set", \H15, "load_print_str">>,
        <<"set", \H1E, "load_debug_off">>,
        <<"set", \H1F, "load_debug_on">>,
        <<"set_range", \H20, \H2F, "load_dump_var">>,
        <<"set_range", \H30, \H3F, "load_print_var">>,
        <<"set_range", \HF0, \HFF, "load_dump_string">>,
        <<"set", \HFF, "load_dump_string">>
    >> >>
  >>

\* handlers.rs:57-62: the codepage-switch sub-table installed by new_code_page_0 itself
code_page_0_setcp_ops ==
  <<
    <<"add_subset", \HFF, <<
        <<"set_range", \H00, \HF0, "load_setcp">>,
        <<"set", \HF0, "load_setcpx">>,
        <<"set_range", \HF1, \HFF, "load_setcp">>,
        <<"set", \HFF, "load_setcp">>
    >> >>
  >>

add_code_page_0_part_stack(self) == Chain(self, add_code_page_0_part_stack_ops)

add_code_page_0_tuple(self) == Chain(self, add_code_page_0_tuple_ops)

add_code_page_0_part_constant(self) == Chain(self, add_code_page_0_part_constant_ops)

\* The arithmetic chain without its sub-table of quiet opcodes.
add_code_page_0_arithmetic_signaling_only(self) ==
  LET signaling(op) == op[2] # \HB7
  IN Chain(self, SelectSeq(add_code_page_0_arithmetic_ops, signaling))

add_code_page_0_arithmetic(self) == Chain(self, add_code_page_0_arithmetic_ops)

add_code_page_0_comparsion(self) == Chain(self, add_code_page_0_comparsion_ops)

add_code_page_0_cell(self) == Chain(self, add_code_page_0_cell_ops)

add_code_page_0_control_flow(self) == Chain(self, add_code_page_0_control_flow_ops)

add_code_page_0_exceptions(self) == Chain(self, add_code_page_0_exceptions_ops)

add_code_page_0_dictionaries(self) == Chain(self, add_code_page_0_dictionaries_ops)

add_code_page_0_gas_rand_config(self) == Chain(self, add_code_page_0_gas_rand_config_ops)

add_code_page_0_blockchain(self) == Chain(self, add_code_page_0_blockchain_ops)

add_code_page_0_crypto(self) == Chain(self, add_code_page_0_crypto_ops)

add_code_page_0_debug(self) == Chain(self, add_code_page_0_debug_ops)

\* A read that returned the first byte without advancing past it.
get_next_byte_peeking(slice) ==
  IF slice.bytes = <<>>
  THEN [ok |-> FALSE, slice |-> slice]
  ELSE [ok |-> TRUE, byte |-> Head(slice.bytes), slice |-> slice]

\* A read that padded a slice of fewer than eight bits with zero bits.
get_next_byte_padding(slice) ==
  IF slice.bytes = <<>>
  THEN [ok |-> TRUE, byte |-> 0, slice |-> [slice EXCEPT !.bits = 0]]
  ELSE [ok |-> TRUE, byte |-> Head(slice.bytes),
        slice |-> [slice EXCEPT !.bytes = Tail(slice.bytes)]]

\* SliceData, as far as the dispatcher reads it: the whole bytes still unread
\* and the count (0..7) of bits that follow the last whole byte.
\* SliceData::get_next_byte fails when fewer than 8 bits remain and otherwise
\* returns the first byte and advances past it.
get_next_byte(slice) ==
  IF slice.bytes = <<>>
  THEN [ok |-> FALSE, slice |-> slice]
  ELSE [ok |-> TRUE, byte |-> Head(slice.bytes),
        slice |-> [slice EXCEPT !.bytes = Tail(slice.bytes)]]

\* Handlers::get_handler: read one byte (`?` returns the failure), index
\* directs; a Direct slot returns Ok(handler), whatever the handler is; a
\* Subset slot recurses into subsets[i] with the same slice (an index past the
\* end of subsets is Rust's bounds-check panic).
\* The behaviour a lookup that rejected an unassigned slot itself would have.
RECURSIVE get_handler_rejecting(_, _)
get_handler_rejecting(self, slice) ==
  LET cmd == get_next_byte(slice)
  IN IF ~cmd.ok
     THEN [ok |-> FALSE, err |-> "get_next_byte", slice |-> cmd.slice]
     ELSE LET h == self.directs[cmd.byte]
          IN IF h.tag = "Direct"
             THEN IF h.handler = "load_unknown"
                  THEN [ok |-> FALSE, err |-> "unknown opcode", slice |-> cmd.slice]
                  ELSE [ok |-> TRUE, handler |-> h.handler, slice |-> cmd.slice]
             ELSE IF h.index + 1 \in DOMAIN self.subsets
                  THEN get_handler_rejecting(self.subsets[h.index + 1], cmd.slice)
                  ELSE [ok |-> FALSE, err |-> "panic", slice |-> cmd.slice]

RECURSIVE get_handler(_, _)
get_handler(self, slice) ==
  LET cmd == get_next_byte(slice)
  IN IF ~cmd.ok
     THEN [ok |-> FALSE, err |-> "get_next_byte", slice |-> cmd.slice]
     ELSE LET h == self.directs[cmd.byte]
          IN IF h.tag = "Direct"
             THEN [ok |-> TRUE, handler |-> h.handler, slice |-> cmd.slice]
             ELSE IF h.index + 1 \in DOMAIN self.subsets
                  THEN get_handler(self.subsets[h.index + 1], cmd.slice)
                  ELSE [ok |-> FALSE, err |-> "panic", slice |-> cmd.slice]

\* The set of values of a function or sequence.
Range(f) == {f[i] : i \in DOMAIN f}

\* The concatenation of a sequence of sequences.
RECURSIVE Concat(_)
Concat(seqs) == IF seqs = <<>> THEN <<>> ELSE Head(seqs) \o Concat(Tail(seqs))

(***************************************************************************)
(* Part II.  The assembler parser (tvm_linker/src/parser.rs)               *)
(*                                                                         *)
(* Text is modelled character by character: a string is a sequence of      *)
(* one-character strings, a file is the sequence of the lines read_line    *)
(* returns (each with its line feed).  The regular expressions of the      *)
(* source are sequences of items matched greedily from a position: in      *)
(* every pattern of the source a repeated class is followed by a character *)
(* outside the class (or by nothing), so the greedy match is the only      *)
(* match and no backtracking is needed.                                    *)
(***************************************************************************)
LowerChars ==
  <<"a", "b", "c", "d", "e", "f", "g", "h", "i", "j", "k", "l", "m",
    "n", "o", "p", "q", "r", "s", "t", "u", "v", "w", "x", "y", "z">>

UpperChars ==
  <<"A", "B", "C", "D", "E", "F", "G", "H", "I", "J", "K", "L", "M",
    "N", "O", "P", "Q", "R", "S", "T", "U", "V", "W", "X", "Y", "Z">>

DigitChars == <<"0", "1", "2", "3", "4", "5", "6", "7", "8", "9">>

\* The position of c in the sequence chars.
IndexOf(chars, c) == CHOOSE i \in DOMAIN chars : chars[i] = c

Lower == Range(LowerChars)

Upper == Range(UpperChars)

Digit == Range(DigitChars)

\* [\t\s]
WS == {" ", "\t", "\n", "\r"}

\* [a-zA-Z0-9_]
WORD == Lower \cup Upper \cup Digit \cup {"_"}

\* [a-zA-Z]
ALPHA == Lower \cup Upper

\* [\.a-zA-Z0-9_]
DOTWORD == WORD \cup {"."}

Lit(chars) == <<"lit", chars>>
Star(class) == <<"star", class>>
Plus(class) == <<"plus", class>>
Opt(char) == <<"opt", char>>
Open == <<"open">>
Close == <<"close">>

\* The first position at or after i whose character is not in class.
RECURSIVE SkipClass(_, _, _)
SkipClass(s, i, class) ==
  IF i <= Len(s) /\ s[i] \in class THEN SkipClass(s, i + 1, class) ELSE i

\* Items k.. of pattern pat matched against s from position i.  caps lists
\* the groups closed so far as <<first, last + 1>>, opened is where the
\* group being matched began.
RECURSIVE MatchItems(_, _, _, _, _, _)
MatchItems(pat, k, s, i, caps, opened) ==
  IF k > Len(pat)
  THEN [ok |-> TRUE, end |-> i, caps |-> caps]
  ELSE LET item == pat[k]
           fail == [ok |-> FALSE, end |-> i, caps |-> <<>>]
       IN CASE item[1] = "lit" ->
                 IF /\ i + Len(item[2]) - 1 <= Len(s)
                    /\ SubSeq(s, i, i + Len(item[2]) - 1) = item[2]
                 THEN MatchItems(pat, k + 1, s, i + Len(item[2]), caps, opened)
                 ELSE fail
            [] item[1] = "star" ->
                 MatchItems(pat, k + 1, s, SkipClass(s, i, item[2]), caps, opened)
            [] item[1] = "plus" ->
                 IF i <= Len(s) /\ s[i] \in item[2]
                 THEN MatchItems(pat, k + 1, s, SkipClass(s, i, item[2]), caps, opened)
                 ELSE fail
            [] item[1] = "opt" ->
                 IF i <= Len(s) /\ s[i] = item[2]
                 THEN MatchItems(pat, k + 1, s, i + 1, caps, opened)
                 ELSE MatchItems(pat, k + 1, s, i, caps, opened)
            [] item[1] = "open" -> MatchItems(pat, k + 1, s, i, caps, i)
            [] item[1] = "close" ->
                 MatchItems(pat, k + 1, s, i, Append(caps, <<opened, i>>), opened)

\* Regex::is_match / Regex::captures of a pattern that begins with ^.
MatchStart(pat, s) == MatchItems(pat, 1, s, 1, <<>>, 1)

is_match(pat, s) == MatchStart(pat, s).ok

\* cap.get(n).unwrap().as_str()
Group(pat, s, n) ==
  LET as_str(m) == SubSeq(s, m.caps[n][1], m.caps[n][2] - 1)
  IN as_str(MatchStart(pat, s))

\* cap.get(n).unwrap().start(), as a position counted from 1
GroupStart(pat, s, n) == MatchStart(pat, s).caps[n][1]

\* Regex::find of an unanchored pattern: the leftmost match at or after
\* position i, as [ok, start, end] with end one past the match.
RECURSIVE FindFrom(_, _, _)
FindFrom(pat, s, i) ==
  LET found(m) == IF m.ok
                  THEN [ok |-> TRUE, start |-> i, end |-> m.end]
                  ELSE FindFrom(pat, s, i + 1)
  IN IF i > Len(s)
     THEN [ok |-> FALSE, start |-> 0, end |-> 0]
     ELSE found(MatchItems(pat, 1, s, i, <<>>, i))

find(pat, s) == FindFrom(pat, s, 1)

\* Regex::split: the pieces of s between the successive matches of pat.
RECURSIVE SplitFrom(_, _, _)
SplitFrom(pat, s, i) ==
  LET pieces(m) == IF m.ok
                   THEN <<SubSeq(s, i, m.start - 1)>> \o SplitFrom(pat, s, m.end)
                   ELSE <<SubSeq(s, i, Len(s))>>
  IN pieces(FindFrom(pat, s, i))

split(pat, s) == SplitFrom(pat, s, 1)

\* str::trim_end: drop the trailing white space.
RECURSIVE trim_end(_)
trim_end(s) ==
  IF s # <<>> /\ s[Len(s)] \in WS THEN trim_end(SubSeq(s, 1, Len(s) - 1)) ELSE s

\* str::trim_start
RECURSIVE trim_start(_)
trim_start(s) == IF s # <<>> /\ Head(s) \in WS THEN trim_start(Tail(s)) ELSE s

\* str::trim
trim(s) == trim_start(trim_end(s))

\* str::trim_start_matches(c)
RECURSIVE trim_start_matches(_, _)
trim_start_matches(s, c) ==
  IF s # <<>> /\ Head(s) = c THEN trim_start_matches(Tail(s), c) ELSE s

\* str::find(pattern): the 0-based index of the first occurrence of sub in
\* s, or -1 for None.
str_find(s, sub) ==
  LET hits == {i \in 1..(Len(s) - Len(sub) + 1) : SubSeq(s, i, i + Len(sub) - 1) = sub}
  IN IF hits = {} THEN -1 ELSE (CHOOSE i \in hits : \A j \in hits : i <= j) - 1

\* str::lines: the lines of s without their line feeds (and without a
\* carriage return before the line feed); a final line feed opens no line.
RECURSIVE lines(_)
lines(s) ==
  IF s = <<>> THEN <<>>
  ELSE LET nl == str_find(s, <<"\n">>)
           strip(l) == IF l # <<>> /\ l[Len(l)] = "\r" THEN SubSeq(l, 1, Len(l) - 1) ELSE l
       IN IF nl < 0 THEN <<strip(s)>>
          ELSE <<strip(SubSeq(s, 1, nl))>> \o lines(SubSeq(s, nl + 2, Len(s)))

\* The value of a decimal digit.
DigitValue(c) == IndexOf(DigitChars, c) - 1

\* i32::MAX; i32::MIN is -I32_MAX - 1.
I32_MAX == 2147483647

\* usize::MAX, as far as TLC's 32-bit integers reach: a larger size
\* is outside the model.
USIZE_MAX == 2147483647

\* The digits k.. of s accumulated onto acc as from_str_radix does, with
\* checked_mul(10) and then checked_add (checked_sub when the number is
\* negative) of the digit; ok is FALSE when a step leaves lo..hi.
RECURSIVE Accumulate(_, _, _, _, _, _)
Accumulate(s, k, acc, neg, lo, hi) ==
  IF k > Len(s) THEN [ok |-> TRUE, value |-> acc]
  ELSE LET d == DigitValue(s[k])
           overflow == [ok |-> FALSE, value |-> 0]
       IN IF neg
          THEN IF acc < 0 - ((0 - (lo + 1)) \div 10) - (IF (0 - (lo + 1)) % 10 = 9 THEN 1 ELSE 0)
               THEN overflow
               ELSE IF acc * 10 < lo + d THEN overflow
                    ELSE Accumulate(s, k + 1, acc * 10 - d, neg, lo, hi)
          ELSE IF acc > hi \div 10 THEN overflow
               ELSE IF acc * 10 > hi - d THEN overflow
                    ELSE Accumulate(s, k + 1, acc * 10 + d, neg, lo, hi)

\* <integer>::from_str_radix(s, 10) for an integer type with the range
\* lo..hi: an optional sign (`-` only for a signed type), then one or more
\* decimal digits, the value within the range; anything else is an error.
from_str_radix(s, lo, hi) ==
  LET neg == s # <<>> /\ Head(s) = "-" /\ lo < 0
      pos == s # <<>> /\ Head(s) = "+"
      digits == IF neg \/ pos THEN Tail(s) ELSE s
  IN IF digits = <<>> \/ \E i \in DOMAIN digits : digits[i] \notin Digit
     THEN [ok |-> FALSE, value |-> 0]
     ELSE Accumulate(digits, 1, 0, neg, lo, hi)

\* ToString for an integer: its decimal digits, after `-` when negative.
RECURSIVE NatString(_)
NatString(n) ==
  IF n < 10 THEN <<DigitChars[n + 1]>>
  ELSE NatString(n \div 10) \o <<DigitChars[(n % 10) + 1]>>

to_string(n) == IF n < 0 THEN <<"-">> \o NatString(0 - n) ELSE NatString(n)


\* Division of the big-endian bytes k.. by ten, carrying the remainder r:
\* the bytes of the quotient and the final remainder.
RECURSIVE DivTen(_, _, _)
DivTen(bytes, k, r) ==
  LET cur == 256 * r + bytes[k]
      carried(more) == [quot |-> <<cur \div 10>> \o more.quot, rem |-> more.rem]
  IN IF k > Len(bytes) THEN [quot |-> <<>>, rem |-> r]
     ELSE carried(DivTen(bytes, k + 1, cur % 10))

\* ToString for a u32 kept as its four big-endian bytes.
RECURSIVE u32_to_string(_)
u32_to_string(bytes) ==
  LET digits(d) == IF \A i \in DOMAIN d.quot : d.quot[i] = 0
                   THEN <<DigitChars[d.rem + 1]>>
                   ELSE u32_to_string(d.quot) \o <<DigitChars[d.rem + 1]>>
  IN digits(DivTen(bytes, 1, 0))


(***************************************************************************)
(* SHA-256 (the sha2 crate's Sha256, FIPS 180-4).  A 32-bit word is the    *)
(* pair <<high half, low half>> of its 16-bit halves, so that no           *)
(* intermediate value leaves the range of TLC's 32-bit integers; a          *)
(* u32 read from_be_bytes is kept as its four bytes.  The tests on a newly *)
(* computed word (a half is never negative) make the evaluation of each    *)
(* round finish before the next one starts.                                *)
(***************************************************************************)
RECURSIVE Xor16(_, _, _)
Xor16(a, b, n) ==
  IF n = 0 THEN 0 ELSE ((a + b) % 2) + 2 * Xor16(a \div 2, b \div 2, n - 1)

RECURSIVE And16(_, _, _)
And16(a, b, n) ==
  IF n = 0 THEN 0 ELSE ((a % 2) * (b % 2)) + 2 * And16(a \div 2, b \div 2, n - 1)

Pow2(n) == [i \in 0..16 |-> 2^i][n]

WXor(x, y) == <<Xor16(x[1], y[1], 16), Xor16(x[2], y[2], 16)>>

WAnd(x, y) == <<And16(x[1], y[1], 16), And16(x[2], y[2], 16)>>

WNot(x) == <<65535 - x[1], 65535 - x[2]>>

\* wrapping_add
WAdd(x, y) ==
  LET lo == x[2] + y[2]
      hi == x[1] + y[1] + (lo \div 65536)
  IN <<hi % 65536, lo % 65536>>

\* rotate_right(n), 0 <= n < 32
RotR(x, n) ==
  LET y == IF n >= 16 THEN <<x[2], x[1]>> ELSE x
      r == n % 16
  IN IF r = 0 THEN y
     ELSE <<(y[1] \div Pow2(r)) + (y[2] % Pow2(r)) * Pow2(16 - r),
            (y[2] \div Pow2(r)) + (y[1] % Pow2(r)) * Pow2(16 - r)>>

\* x >> n, 0 < n < 16
ShR(x, n) ==
  <<x[1] \div Pow2(n), (x[2] \div Pow2(n)) + (x[1] % Pow2(n)) * Pow2(16 - n)>>

Ch(x, y, z) == WXor(WAnd(x, y), WAnd(WNot(x), z))

Maj(x, y, z) == WXor(WXor(WAnd(x, y), WAnd(x, z)), WAnd(y, z))

BigSigma0(x) == WXor(WXor(RotR(x, 2), RotR(x, 13)), RotR(x, 22))

BigSigma1(x) == WXor(WXor(RotR(x, 6), RotR(x, 11)), RotR(x, 25))

SmallSigma0(x) == WXor(WXor(RotR(x, 7), RotR(x, 18)), ShR(x, 3))

SmallSigma1(x) == WXor(WXor(RotR(x, 17), RotR(x, 19)), ShR(x, 10))

Sha256K ==
  <<<<\H428A, \H2F98>>, <<\H7137, \H4491>>, <<\HB5C0, \HFBCF>>, <<\HE9B5, \HDBA5>>,
    <<\H3956, \HC25B>>, <<\H59F1, \H11F1>>, <<\H923F, \H82A4>>, <<\HAB1C, \H5ED5>>,
    <<\HD807, \HAA98>>, <<\H1283, \H5B01>>, <<\H2431, \H85BE>>, <<\H550C, \H7DC3>>,
    <<\H72BE, \H5D74>>, <<\H80DE, \HB1FE>>, <<\H9BDC, \H06A7>>, <<\HC19B, \HF174>>,
    <<\HE49B, \H69C1>>, <<\HEFBE, \H4786>>, <<\H0FC1, \H9DC6>>, <<\H240C, \HA1CC>>,
    <<\H2DE9, \H2C6F>>, <<\H4A74, \H84AA>>, <<\H5CB0, \HA9DC>>, <<\H76F9, \H88DA>>,
    <<\H983E, \H5152>>, <<\HA831, \HC66D>>, <<\HB003, \H27C8>>, <<\HBF59, \H7FC7>>,
    <<\HC6E0, \H0BF3>>, <<\HD5A7, \H9147>>, <<\H06CA, \H6351>>, <<\H1429, \H2967>>,
    <<\H27B7, \H0A85>>, <<\H2E1B, \H2138>>, <<\H4D2C, \H6DFC>>, <<\H5338, \H0D13>>,
    <<\H650A, \H7354>>, <<\H766A, \H0ABB>>, <<\H81C2, \HC92E>>, <<\H9272, \H2C85>>,
    <<\HA2BF, \HE8A1>>, <<\HA81A, \H664B>>, <<\HC24B, \H8B70>>, <<\HC76C, \H51A3>>,
    <<\HD192, \HE819>>, <<\HD699, \H0624>>, <<\HF40E, \H3585>>, <<\H106A, \HA070>>,
    <<\H19A4, \HC116>>, <<\H1E37, \H6C08>>, <<\H2748, \H774C>>, <<\H34B0, \HBCB5>>,
    <<\H391C, \H0CB3>>, <<\H4ED8, \HAA4A>>, <<\H5B9C, \HCA4F>>, <<\H682E, \H6FF3>>,
    <<\H748F, \H82EE>>, <<\H78A5, \H636F>>, <<\H84C8, \H7814>>, <<\H8CC7, \H0208>>,
    <<\H90BE, \HFFFA>>, <<\HA450, \H6CEB>>, <<\HBEF9, \HA3F7>>, <<\HC671, \H78F2>>>>

Sha256H0 ==
  <<<<\H6A09, \HE667>>, <<\HBB67, \HAE85>>, <<\H3C6E, \HF372>>, <<\HA54F, \HF53A>>,
    <<\H510E, \H527F>>, <<\H9B05, \H688C>>, <<\H1F83, \HD9AB>>, <<\H5BE0, \HCD19>>>>

\* The message followed by the bit 1, zeros up to 56 bytes modulo 64, and
\* the length of the message in bits as a 64-bit big-endian number.
Sha256Pad(bytes) ==
  LET n == Len(bytes)
      zeros == (119 - (n % 64)) % 64
      bits == 8 * n
  IN bytes \o <<128>> \o [i \in 1..zeros |-> 0]
       \o <<0, 0, 0, 0, (bits \div 16777216) % 256, (bits \div 65536) % 256,
            (bits \div 256) % 256, bits % 256>>

\* The sixteen big-endian words of block number b (from 0) of the message.
Sha256Block(padded, b) ==
  [t \in 1..16 |->
     LET o == 64 * b + 4 * (t - 1)
     IN <<256 * padded[o + 1] + padded[o + 2], 256 * padded[o + 3] + padded[o + 4]>>]

\* The message schedule W[1..64], extended from the sixteen block words.
RECURSIVE Sha256Schedule(_)
Sha256Schedule(ws) ==
  IF Len(ws) = 64 THEN ws
  ELSE LET t == Len(ws) + 1
           next == WAdd(WAdd(SmallSigma1(ws[t - 2]), ws[t - 7]),
                        WAdd(SmallSigma0(ws[t - 15]), ws[t - 16]))
       IN IF next[1] >= 0 THEN Sha256Schedule(Append(ws, next)) ELSE ws

\* Rounds t..64 of the compression over the working variables v = a..h.
RECURSIVE Sha256Rounds(_, _, _)
Sha256Rounds(v, ws, t) ==
  IF t > 64 THEN v
  ELSE LET t1 == WAdd(WAdd(WAdd(v[8], BigSigma1(v[5])), Ch(v[5], v[6], v[7])),
                      WAdd(Sha256K[t], ws[t]))
           t2 == WAdd(BigSigma0(v[1]), Maj(v[1], v[2], v[3]))
           a == WAdd(t1, t2)
           e == WAdd(v[4], t1)
       IN IF a[1] >= 0 /\ e[1] >= 0
          THEN Sha256Rounds(<<a, v[1], v[2], v[3], e, v[5], v[6], v[7]>>, ws, t + 1)
          ELSE v

\* The hash state after blocks b.. of the padded message.
RECURSIVE Sha256Blocks(_, _, _)
Sha256Blocks(h, padded, b) ==
  IF 64 * b >= Len(padded) THEN h
  ELSE LET v == Sha256Rounds(h, Sha256Schedule(Sha256Block(padded, b)), 1)
           sum == <<WAdd(h[1], v[1]), WAdd(h[2], v[2]), WAdd(h[3], v[3]), WAdd(h[4], v[4]),
                    WAdd(h[5], v[5]), WAdd(h[6], v[6]), WAdd(h[7], v[7]), WAdd(h[8], v[8])>>
       IN IF sum[1][1] >= 0 THEN Sha256Blocks(sum, padded, b + 1) ELSE h

\* Sha256::new(), input(bytes), result(): the eight words of the digest.
Sha256(bytes) == Sha256Blocks(Sha256H0, Sha256Pad(bytes), 0)

\* str::as_bytes for the characters of names: the ASCII code of a letter, a
\* digit or the underscore.
as_byte(c) ==
  CASE c \in Range(DigitChars) -> 47 + IndexOf(DigitChars, c)
    [] c \in Range(UpperChars) -> 64 + IndexOf(UpperChars, c)
    [] c \in Range(LowerChars) -> 96 + IndexOf(LowerChars, c)
    [] c = "_" -> 95

as_bytes(s) == [i \in DOMAIN s |-> as_byte(s[i])]

\* u32::from_be_bytes of the first four bytes of the digest, kept as the
\* four bytes, most significant first.
Sha256Id(func_interface) ==
  LET word == Sha256(as_bytes(func_interface))[1]
  IN <<word[1] \div 256, word[1] % 256, word[2] \div 256, word[2] % 256>>

(***************************************************************************)
(* The parser's data.  A HashMap is a function on the finite set of its    *)
(* keys.  An ObjectType is a record with every field present, tag telling  *)
(* which ones count.  A u32 identifier is its four big-endian bytes.       *)
(***************************************************************************)
EmptyMap == <<>>

\* HashMap::insert
Put(map, key, value) ==
  [k \in DOMAIN map \cup {key} |-> IF k = key THEN value ELSE map[k]]

None == [tag |-> "None", id |-> <<0, 0, 0, 0>>, body |-> <<>>, values |-> <<>>]

Function(id, body) == [tag |-> "Function", id |-> id, body |-> body, values |-> <<>>]

Data(values) == [tag |-> "Data", id |-> <<0, 0, 0, 0>>, body |-> <<>>, values |-> values]

\* A conversion that took every kind it does not know for a function.
ObjectType_from_any(stype) ==
  CASE stype = <<"o", "b", "j", "e", "c", "t">> -> Data(<<>>)
    [] OTHER -> Function(<<0, 0, 0, 0>>, <<>>)

\* impl From<&str> for ObjectType
ObjectType_from(stype) ==
  CASE stype = <<"f", "u", "n", "c", "t", "i", "o", "n">> -> Function(<<0, 0, 0, 0>>, <<>>)
    [] stype = <<"o", "b", "j", "e", "c", "t">> -> Data(<<>>)
    [] OTHER -> None

Object_new(name, stype) ==
  [name |-> name, size |-> 0, align |-> 0, dtype |-> ObjectType_from(stype)]

Object_default == Object_new(<<>>, <<>>)

\* HashMap::entry(key).or_insert(value)
or_insert(map, key, value) == IF key \in DOMAIN map THEN map ELSE Put(map, key, value)

ParseEngine_new ==
  [xrefs |-> EmptyMap, intrefs |-> EmptyMap, aliases |-> EmptyMap, globals |-> EmptyMap,
   internals |-> EmptyMap, signed |-> EmptyMap, entry_point |-> <<>>]

PATTERN_GLOBL == <<Star(WS), Lit(<<".", "g", "l", "o", "b", "l">>), Plus(WS), Open, Plus(WORD), Close>>

PATTERN_DATA == <<Star(WS), Lit(<<".", "d", "a", "t", "a">>)>>

PATTERN_INTERNAL ==
  <<Star(WS), Lit(<<".", "i", "n", "t", "e", "r", "n", "a", "l">>), Plus(WS), Open, Lit(<<":">>), Plus(WORD), Close>>

PATTERN_SELECTOR == <<Star(WS), Lit(<<".", "s", "e", "l", "e", "c", "t", "o", "r">>)>>

PATTERN_ALIAS ==
  <<Star(WS), Lit(<<".", "i", "n", "t", "e", "r", "n", "a", "l", "-", "a", "l", "i", "a", "s", " ">>), Open, Lit(<<":">>), Plus(WORD), Close,
    Lit(<<",">>), Plus(WS), Open, Opt("-"), Plus(Digit), Close>>

PATTERN_LABEL == <<Plus(WORD), Lit(<<":">>)>>

PATTERN_PARAM == <<Plus(WS), Lit(<<".">>), Open, Plus(WORD), Close>>

PATTERN_TYPE ==
  <<Star(WS), Lit(<<".", "t", "y", "p", "e">>), Plus(WS), Open, Plus(WORD), Close,
    Lit(<<",">>), Star(WS), Lit(<<"@">>), Open, Plus(ALPHA), Close>>

PATTERN_SIZE ==
  <<Star(WS), Lit(<<".", "s", "i", "z", "e">>), Plus(WS), Open, Plus(WORD), Close,
    Lit(<<",">>), Star(WS), Open, Plus(DOTWORD), Close>>

\* The expression of replace_labels, \$:?[A-Za-z0-9_]+\$
LABEL_REFERENCE == <<Lit(<<"$">>), Opt(":"), Plus(WORD), Lit(<<"$">>)>>

GLOBL == ".globl"

INTERNAL == ".internal"

DATA == ".data"

SELECTOR == ".selector"

FUNC_SUFFIX_AUTH == <<"_", "a", "u", "t", "h", "o", "r", "i", "z", "e", "d">>

\* The names of the global functions of the inputs below.
KnownNames ==
  <<<<"f", "o", "o">>, <<"b", "a", "r">>, <<"t", "w", "o">>, <<"p", "a", "y", "_", "a", "u", "t", "h", "o", "r", "i", "z", "e", "d">>, <<"p", "a", "y", "_", "a", "u", "t", "h", "o", "r", "i", "z", "e", "d", "_", "x">>,
    <<"p", "a", "y", "_", "a", "u", "t", "h", "o", "r", "i", "z", "e", "d", "_", "a", "u", "t", "h", "o", "r", "i", "z", "e", "d">>, <<"c", "o", "n", "s", "t", "r", "u", "c", "t", "o", "r">>>>

\* The identifier of each of KnownNames, in order: the first four bytes of
\* the SHA-256 of the name, most significant first.
KnownIds ==
  <<<<44, 38, 180, 107>>, <<252, 222, 43, 46>>, <<63, 196, 204, 254>>,
    <<156, 175, 65, 237>>, <<154, 181, 46, 91>>, <<190, 157, 119, 178>>,
    <<227, 193, 112, 58>>>>

RECURSIVE IdsOf(_)
IdsOf(names) == IF names = <<>> THEN <<>> ELSE <<Sha256Id(Head(names))>> \o IdsOf(Tail(names))

\* KnownIds is what Sha256Id computes for KnownNames.
KnownIdsComputed == KnownIds = IdsOf(KnownNames)

\* An ID read from the four bytes as a little-endian number.
calc_func_id_little_endian(func_interface) ==
  LET reversed(id) == <<id[4], id[3], id[2], id[1]>>
  IN reversed(KnownIds[IndexOf(KnownNames, func_interface)])

\* The first four bytes of the SHA-256 of the name, read as a big-endian
\* u32; the digests of the names in use are KnownIds.
calc_func_id(func_interface) == KnownIds[IndexOf(KnownNames, func_interface)]

\* The value of a Result<(), String>, with the engine as the call left it:
\* a fault carries its message, the formatted argument apart.
Ok(self) == [ok |-> TRUE, self |-> self, msg |-> "", arg |-> <<>>]

Err(self, msg, arg) == [ok |-> FALSE, self |-> self, msg |-> msg, arg |-> arg]

\* IntegerData::from_str_radix(value, 10), for values within TLC's
\* integers.
IntegerData_from_str_radix(value) == from_str_radix(value, 0 - I32_MAX - 1, I32_MAX)

\* The loop of update_data over the lines k.. of the body.
RECURSIVE update_data_from(_, _, _, _)
update_data_from(params, k, item_size, values) ==
  LET fault(size, msg, arg) ==
        [ok |-> FALSE, size |-> size, values |-> values, msg |-> msg, arg |-> arg]
      value_len(keyword) == CASE keyword = <<".", "b", "y", "t", "e">> -> 1
                              [] keyword = <<".", "l", "o", "n", "g">> -> 4
                              [] keyword = <<".", "s", "h", "o", "r", "t">> -> 2
                              [] keyword = <<".", "q", "u", "a", "d">> -> 8
                              [] OTHER -> 0
      value(param) == trim(trim_start_matches(
                             SubSeq(param, GroupStart(PATTERN_PARAM, param, 1), Len(param)),
                             ","))
      push(len, number) ==
        IF item_size < len
        THEN fault(item_size, "global object has invalid .size parameter: too small)", <<>>)
        ELSE IF ~number.ok
        THEN fault(item_size - len, "value is invalid number", <<>>)
        ELSE update_data_from(params, k + 1, item_size - len,
                              Append(values, [value |-> number.value, len |-> len]))
      take(keyword, len) ==
        IF len = 0
        THEN fault(item_size, "Unsupported parameter {}", keyword)
        ELSE push(len, IntegerData_from_str_radix(value(params[k])))
      captured(keyword) == take(keyword, value_len(keyword))
  IN IF k > Len(params)
     THEN IF item_size > 0
          THEN fault(item_size,
                     "global object has invalid .size parameter: bigger than defined values",
                     <<>>)
          ELSE [ok |-> TRUE, size |-> item_size, values |-> values, msg |-> "", arg |-> <<>>]
     ELSE IF ~is_match(PATTERN_PARAM, params[k])
     THEN update_data_from(params, k + 1, item_size, values)
     ELSE captured(Group(PATTERN_PARAM, params[k], 1))

update_data(body, item_size, values) == update_data_from(lines(body), 1, item_size, values)

\* The SELECTOR arm of update.
update_selector(self, body) ==
  IF self.entry_point = <<>>
  THEN Ok([self EXCEPT !.entry_point = trim_end(body)])
  ELSE Err(self, "Another selector found", <<>>)

\* Whether update records the function as signed: the first occurrence of
\* the suffix in the name is the end of the name.
is_signed(func) ==
  LET index == str_find(func, FUNC_SUFFIX_AUTH)
  IN index >= 0 /\ index + Len(FUNC_SUFFIX_AUTH) = Len(func)

\* The GLOBL arm of update.
update_globl(self, func, body, first_pass) ==
  LET item == IF func \in DOMAIN self.globals THEN self.globals[func] ELSE Object_default
      inserted(stored, func_id) ==
        IF first_pass /\ func \in DOMAIN self.xrefs
        THEN Err(stored, "global function with id = {} already exist",
                 u32_to_string(func_id))
        ELSE Ok(stored)
      function(func_id) ==
        inserted([self EXCEPT
                    !.globals = Put(@, func, [item EXCEPT
                                                !.dtype = Function(func_id, trim_end(body))]),
                    !.signed = Put(@, func_id, is_signed(func)),
                    !.xrefs = Put(@, func, func_id)],
                 func_id)
      returned(stored, d) == IF d.ok THEN Ok(stored) ELSE Err(stored, d.msg, d.arg)
      data(d) ==
        returned([self EXCEPT !.globals =
                    Put(@, func, [item EXCEPT !.size = d.size, !.dtype = Data(d.values)])],
                 d)
  IN CASE item.dtype.tag = "Function" -> function(calc_func_id(func))
       [] item.dtype.tag = "Data" -> data(update_data(body, item.size, item.dtype.values))
       [] item.dtype.tag = "None" ->
            Err([self EXCEPT !.globals = Put(@, func, item)],
                "The type of global object {} is unknown. Use: .type {}, xxx", func)

\* The INTERNAL arm of update taking 0 for the id of a name without alias.
update_internal_defaulting(self, func, body, first_pass) ==
  LET f_id == IF func \in DOMAIN self.aliases THEN self.aliases[func] ELSE 0
      inserted(stored) ==
        IF first_pass /\ f_id \in DOMAIN self.internals
        THEN Err(stored, "internal function with id = {} already exist", to_string(f_id))
        ELSE Ok([stored EXCEPT !.intrefs = Put(@, func, f_id)])
  IN inserted([self EXCEPT !.internals = Put(@, f_id, trim_end(body))])

\* The INTERNAL arm of update.
update_internal(self, func, body, first_pass) ==
  LET f_id == self.aliases[func]
      inserted(stored) ==
        IF first_pass /\ f_id \in DOMAIN self.internals
        THEN Err(stored, "internal function with id = {} already exist", to_string(f_id))
        ELSE Ok([stored EXCEPT !.intrefs = Put(@, func, f_id)])
  IN IF func \notin DOMAIN self.aliases
     THEN Err(self, "id for '{}' not found", func)
     ELSE inserted([self EXCEPT !.internals = Put(@, f_id, trim_end(body))])

\* update taking every flush for one of the second pass.
update_as_second_pass(self, section, func, body, first_pass) ==
  CASE section = SELECTOR -> update_selector(self, body)
    [] section = GLOBL -> update_globl(self, func, body, FALSE)
    [] section = INTERNAL -> update_internal(self, func, body, FALSE)
    [] OTHER -> Ok(self)

update(self, section, func, body, first_pass) ==
  CASE section = SELECTOR -> update_selector(self, body)
    [] section = GLOBL -> update_globl(self, func, body, first_pass)
    [] section = INTERNAL -> update_internal(self, func, body, first_pass)
    [] OTHER -> Ok(self)

\* The loop of replace_labels: result is what has been pushed so far, line
\* what is still to be searched.
RECURSIVE replace_labels_loop(_, _, _)
replace_labels_loop(self, result, line) ==
  LET id_name(pointer) == IF Head(pointer) = ":"
                          THEN IF pointer \in DOMAIN self.intrefs
                               THEN to_string(self.intrefs[pointer])
                               ELSE <<"?", "?", "?">>
                          ELSE IF pointer \in DOMAIN self.xrefs
                               THEN u32_to_string(self.xrefs[pointer])
                               ELSE <<"?", "?", "?">>
      pushed(parts, pointer) ==
        replace_labels_loop(self, result \o parts[1] \o id_name(pointer),
                            IF Len(parts) >= 2 THEN parts[2] ELSE <<>>)
      found(mt) == IF ~mt.ok
                   THEN result \o line
                   ELSE pushed(split(LABEL_REFERENCE, line),
                               SubSeq(line, mt.start + 1, mt.end - 2))
  IN found(find(LABEL_REFERENCE, line))

\* replace_labels looking every name up in xrefs alone.
replace_labels_without_intrefs(self, line) ==
  replace_labels_loop([self EXCEPT !.intrefs = EmptyMap], <<>>, line)

replace_labels(self, line) == replace_labels_loop(self, <<>>, line)

\* The local variables of parse_code at its start.
parse_code_locals ==
  [section_name |-> "", obj_body |-> <<>>, obj_name |-> <<>>, lnum |-> 0]

\* What one turn of the loop of parse_code leaves: ok, the engine, the
\* local variables and, for a fault, its message.
Turn(result, locals) ==
  [ok |-> result.ok, self |-> result.self, locals |-> locals,
   msg |-> result.msg, arg |-> result.arg]

\* A turn that opened the section without emptying the body collected.
Opens_keeping_body(self, locals, first_pass, section_name, obj_name) ==
  LET opened(flushed) ==
        IF flushed.ok
        THEN Turn(flushed, [locals EXCEPT !.section_name = section_name,
                                          !.obj_name = obj_name])
        ELSE Turn(flushed, locals)
  IN opened(update(self, locals.section_name, locals.obj_name, locals.obj_body, first_pass))

\* A turn that flushes the open section with update and then opens the
\* section section_name for the object obj_name.
Opens(self, locals, first_pass, section_name, obj_name) ==
  LET opened(flushed) ==
        IF flushed.ok
        THEN Turn(flushed, [locals EXCEPT !.section_name = section_name,
                                          !.obj_body = <<>>, !.obj_name = obj_name])
        ELSE Turn(flushed, locals)
  IN opened(update(self, locals.section_name, locals.obj_name, locals.obj_body, first_pass))

\* One turn of the loop of parse_code, for the line l just read.
parse_code_line(self, before, l, first_pass) ==
  LET locals == [before EXCEPT !.lnum = @ + 1]
      typed(name, type_name, inserted) ==
        Turn(Ok([self EXCEPT !.globals =
                   Put(inserted, name,
                       [inserted[name] EXCEPT !.dtype = ObjectType_from(type_name)])]),
             locals)
      sized(name, inserted, size) ==
        Turn(Ok([self EXCEPT !.globals =
                   Put(inserted, name,
                       [inserted[name] EXCEPT !.size = IF size.ok THEN size.value ELSE 0])]),
             locals)
      global(obj_name, opened) ==
        IF opened.ok
        THEN [opened EXCEPT !.self.globals = or_insert(@, obj_name, Object_new(obj_name, <<>>))]
        ELSE opened
      aliased(name, id) ==
        IF id.ok
        THEN Turn(Ok([self EXCEPT !.aliases = Put(@, name, id.value)]), locals)
        ELSE Turn(Err(self, "line: '{}': failed to parse id", l), locals)
      name_of(pat) == Group(pat, l, 1)
  IN IF is_match(PATTERN_TYPE, l)
     THEN typed(name_of(PATTERN_TYPE), Group(PATTERN_TYPE, l, 2),
                or_insert(self.globals, name_of(PATTERN_TYPE),
                          Object_new(name_of(PATTERN_TYPE), Group(PATTERN_TYPE, l, 2))))
     ELSE IF is_match(PATTERN_SIZE, l)
     THEN sized(name_of(PATTERN_SIZE),
                or_insert(self.globals, name_of(PATTERN_SIZE),
                          Object_new(name_of(PATTERN_SIZE), <<>>)),
                from_str_radix(Group(PATTERN_SIZE, l, 2), 0, USIZE_MAX))
     ELSE IF is_match(PATTERN_GLOBL, l)
     THEN global(name_of(PATTERN_GLOBL),
                 Opens(self, locals, first_pass, GLOBL, name_of(PATTERN_GLOBL)))
     ELSE IF is_match(PATTERN_DATA, l)
     THEN Opens(self, locals, first_pass, DATA, <<>>)
     ELSE IF is_match(PATTERN_SELECTOR, l)
     THEN Opens(self, locals, first_pass, IF first_pass THEN "" ELSE SELECTOR, <<>>)
     ELSE IF is_match(PATTERN_INTERNAL, l)
     THEN Opens(self, locals, first_pass, INTERNAL, name_of(PATTERN_INTERNAL))
     ELSE IF is_match(PATTERN_ALIAS, l)
     THEN aliased(name_of(PATTERN_ALIAS),
                  from_str_radix(Group(PATTERN_ALIAS, l, 2), 0 - I32_MAX - 1, I32_MAX))
     ELSE IF is_match(PATTERN_LABEL, l)
     THEN Turn(Ok(self), locals)
     ELSE IF is_match(PATTERN_PARAM, l)
     THEN Turn(Ok(self), [locals EXCEPT !.obj_body = @ \o l])
     ELSE Turn(Ok(self), [locals EXCEPT !.obj_body =
                            @ \o (IF first_pass THEN l ELSE replace_labels(self, l))])

\* The end of parse_code: read_line returned 0, the open section is flushed.
parse_code_end(self, locals, first_pass) ==
  update(self, locals.section_name, locals.obj_name, locals.obj_body, first_pass)

\* The end of parse without the check.
parse_end_unchecked(self) == Ok(self)

\* The end of parse: the check that a selector was found.
parse_end(self) ==
  IF self.entry_point = <<>> THEN Err(self, "Selector not found", <<>>) ELSE Ok(self)

\* ParseEngine::entry
entry(self) == self.entry_point

\* ParseEngine::internals
internals(self) == self.internals

\* ParseEngine::signed
signed(self) == self.signed

\* ParseEngine::globals, as the set of the <<id, body>> pairs the loop
\* inserts: the map returned holds, for every id, one of the bodies paired
\* with it (the one the iteration of the HashMap visits last).
globals(self) ==
  {<<self.globals[n].dtype.id, self.globals[n].dtype.body>> :
     n \in {m \in DOMAIN self.globals : self.globals[m].dtype.tag = "Function"}}

\* ParseEngine::internal_by_name
internal_by_name(self, name) ==
  IF name \in DOMAIN self.intrefs /\ self.intrefs[name] \in DOMAIN self.internals
  THEN [some |-> TRUE, id |-> self.intrefs[name], body |-> self.internals[self.intrefs[name]]]
  ELSE [some |-> FALSE, id |-> 0, body |-> <<>>]

\* DataValue::write: the number serialised as a signed big-endian integer of
\* the length the value was pushed with.
DataValue_write(v) == [integer |-> v.value, length |-> v.len]

\* The loops of build_data over the objects in the order given and over the
\* values of each data object: every value is set at the next index.
RECURSIVE build_data_over(_, _, _, _)
build_data_over(items, k, index, dict) ==
  IF items = <<>>
  THEN dict
  ELSE IF Head(items).dtype.tag # "Data" \/ k > Len(Head(items).dtype.values)
  THEN build_data_over(Tail(items), 1, index, dict)
  ELSE build_data_over(items, k + 1, index + 1,
                       Put(dict, index, DataValue_write(Head(items).dtype.values[k])))

\* ParseEngine::build_data: the dictionary for each of the orders in which
\* the iteration of the HashMap may visit the globals.
build_data(self) ==
  {build_data_over([i \in DOMAIN order |-> self.globals[order[i]]], 1, 0, EmptyMap) :
     order \in {o \in [1..Cardinality(DOMAIN self.globals) -> DOMAIN self.globals] :
                  \A i, j \in DOMAIN o : i # j => o[i] # o[j]}}

\* ParseEngine::data: a cell whose one reference is the dictionary.
data(self) == {[references |-> <<dict>>] : dict \in build_data(self)}

(***************************************************************************)
(* The dispatch table as a state machine: new_code_page_0 runs its steps   *)
(* in order, and the finished table is then queried by get_handler.        *)
(***************************************************************************)

\* How many bytes of operand data may follow an opcode in a slice given to
\* get_handler.
MaxTail == 1

\* The builder chains new_code_page_0 applies, in its order.
new_code_page_0_steps ==
  << add_code_page_0_part_stack_ops, add_code_page_0_tuple_ops,
     add_code_page_0_part_constant_ops, add_code_page_0_arithmetic_ops,
     add_code_page_0_comparsion_ops, add_code_page_0_cell_ops,
     add_code_page_0_control_flow_ops, add_code_page_0_exceptions_ops,
     add_code_page_0_dictionaries_ops, add_code_page_0_gas_rand_config_ops,
     add_code_page_0_blockchain_ops, add_code_page_0_crypto_ops,
     add_code_page_0_debug_ops, code_page_0_setcp_ops >>

\* Every registration the construction makes on the root node.
RootOps == Concat(new_code_page_0_steps)


\* The byte paths that lead to a slot of the tree the chains describe: every
\* byte of a node, and below each add_subset byte the paths of its child.
RECURSIVE PathsOf(_)
PathsOf(ops) ==
  {<<b>> : b \in Byte}
    \cup UNION {{<<op[2]>> \o p : p \in PathsOf(op[3])} :
                 op \in {o \in Range(ops) : o[1] = "add_subset"}}

Tails == UNION {[1..k -> {0}] : k \in 0..MaxTail}

EmptySlice == [bytes |-> <<>>, bits |-> 0]

\* The slices given to get_handler: the empty slice, a slice of fewer than
\* eight bits, and every path followed by operand bytes, with or without a
\* rest of fewer than eight bits.
Slices ==
  {EmptySlice, [bytes |-> <<>>, bits |-> 3]}
    \cup {[bytes |-> p \o t, bits |-> n] : p \in PathsOf(RootOps), t \in Tails, n \in {0, 3}}

NoHandler == [ok |-> FALSE, handler |-> "", err |-> ""]

\* An Option<String>.
Some(value) == [some |-> TRUE, value |-> value]

Absent == [some |-> FALSE, value |-> ""]

\* The subcommand has not run.
NotRun == [state |-> "start", msg |-> ""]

\* No subcommand is given: the state of the console tool while the
\* dispatch table and the parser are exercised.
NoCommand ==
  /\ matches = [subcommand |-> "", ABI |-> Absent, SIGN |-> Absent]
  /\ config = [abi_path |-> Absent, keys_path |-> Absent]
  /\ command = NotRun
  /\ invoked = <<>>

InitHandlers ==
  /\ cp0 = Handlers_new
  /\ built = 0
  /\ call = "idle"
  /\ given = EmptySlice
  /\ rest = EmptySlice
  /\ loaded = NoHandler
  /\ NoCommand

Step(n, next) ==
  /\ built = n
  /\ cp0' = next
  /\ built' = n + 1
  /\ UNCHANGED <<call, given, rest, loaded, pvars, cvars>>

PartStack == Step(0, add_code_page_0_part_stack(cp0))
Tuple == Step(1, add_code_page_0_tuple(cp0))
PartConstant == Step(2, add_code_page_0_part_constant(cp0))
Arithmetic == Step(3, add_code_page_0_arithmetic(cp0))
Comparsion == Step(4, add_code_page_0_comparsion(cp0))
Cell == Step(5, add_code_page_0_cell(cp0))
ControlFlow == Step(6, add_code_page_0_control_flow(cp0))
Exceptions == Step(7, add_code_page_0_exceptions(cp0))
Dictionaries == Step(8, add_code_page_0_dictionaries(cp0))
GasRandConfig == Step(9, add_code_page_0_gas_rand_config(cp0))
Blockchain == Step(10, add_code_page_0_blockchain(cp0))
Crypto == Step(11, add_code_page_0_crypto(cp0))
Debug == Step(12, add_code_page_0_debug(cp0))
SetCp == Step(13, Chain(cp0, code_page_0_setcp_ops))

Built == built = 14 /\ ~IsPanic(cp0)

GetHandler ==
  /\ Built
  /\ call = "idle"
  /\ \E slice \in Slices :
       LET r == get_handler(cp0, slice)
       IN /\ given' = slice
          /\ rest' = r.slice
          /\ loaded' = IF r.ok
                        THEN [ok |-> TRUE, handler |-> r.handler, err |-> ""]
                        ELSE [ok |-> FALSE, handler |-> "", err |-> r.err]
  /\ call' = "returned"
  /\ UNCHANGED <<cp0, built, pvars, cvars>>

Return ==
  /\ call = "returned"
  /\ call' = "idle"
  /\ given' = EmptySlice
  /\ rest' = EmptySlice
  /\ loaded' = NoHandler
  /\ UNCHANGED <<cp0, built, pvars, cvars>>

NextHandlers ==
  \/ PartStack \/ Tuple \/ PartConstant \/ Arithmetic \/ Comparsion \/ Cell
  \/ ControlFlow \/ Exceptions \/ Dictionaries \/ GasRandConfig \/ Blockchain
  \/ Crypto \/ Debug \/ SetCp
  \/ GetHandler \/ Return


(***************************************************************************)
(* The parser as a state machine: parse reads its inputs in order, the     *)
(* libraries and then the primary source, each twice (first_pass, then the *)
(* second pass from the start); every turn of the loop of parse_code and   *)
(* every end of an input is a step.                                        *)
(*                                                                         *)
(* An input is a sequence of lines.  A line is a record: text is what      *)
(* read_line returns, the only field the parser reads; role, name and n    *)
(* say what the author of the input wrote the line as (a section opener,   *)
(* an alias with its number, a line of a body, ...), for the properties    *)
(* to refer to.                                                            *)
(***************************************************************************)
Line(role, name, n, text) == [role |-> role, name |-> name, n |-> n, text |-> text]

\* How many sections a file is made of at most, and how many libraries a
\* call of parse is given at most.
MaxChunks == 2

MaxLibs == 1

\* The files made of up to MaxChunks groups of lines from pool.
Files(pool) == {Concat(chunks) : chunks \in UNION {[1..n -> pool] : n \in 0..MaxChunks}}

\* The library lists of up to MaxLibs files.
Libraries(files) == UNION {[1..n -> files] : n \in 0..MaxLibs}

Running == [state |-> "running", msg |-> "", arg |-> <<>>, lnum |-> 0]

\* parse returned Ok(()).
Succeeded == [state |-> "ok", msg |-> "", arg |-> <<>>, lnum |-> 0]

\* parse returned Err: the message, its formatted argument, and the number
\* of the line whose turn raised it (one past the last line for the end of
\* the input, 0 for the end of parse).
Failed(msg, arg, lnum) == [state |-> "err", msg |-> msg, arg |-> arg, lnum |-> lnum]

\* BufReader::new, and parse_code entered with first_pass.
Enter(first_pass) == [first_pass |-> first_pass, locals |-> parse_code_locals]

InitParse(libraries, sources) ==
  /\ libs \in libraries
  /\ source \in sources
  /\ engine = ParseEngine_new
  /\ input = 1
  /\ frame = Enter(TRUE)
  /\ outcome = Running

\* The input being read.
Reading == IF input <= Len(libs) THEN libs[input] ELSE source

\* read_line returns a line: one turn of the loop of parse_code.
ReadLine ==
  /\ outcome.state = "running"
  /\ frame.locals.lnum < Len(Reading)
  /\ \E turn \in {parse_code_line(engine, frame.locals,
                                  Reading[frame.locals.lnum + 1].text, frame.first_pass)} :
       /\ engine' = turn.self
       /\ frame' = [frame EXCEPT !.locals = turn.locals]
       /\ outcome' = IF turn.ok THEN outcome
                     ELSE Failed(turn.msg, turn.arg, turn.locals.lnum)
  /\ UNCHANGED <<libs, source, input, hvars, cvars>>

\* read_line returns 0: parse_code flushes the open section and returns;
\* parse seeks to the start for the second pass, or goes on to the next
\* input, or, after the second pass over the primary source, returns.
EndOfInput ==
  /\ outcome.state = "running"
  /\ frame.locals.lnum = Len(Reading)
  /\ \E flushed \in {parse_code_end(engine, frame.locals, frame.first_pass)} :
       /\ engine' = flushed.self
       /\ IF ~flushed.ok
          THEN /\ outcome' = Failed(flushed.msg, flushed.arg, frame.locals.lnum + 1)
               /\ UNCHANGED <<input, frame>>
          ELSE IF frame.first_pass
          THEN /\ frame' = Enter(FALSE)
               /\ UNCHANGED <<input, outcome>>
          ELSE IF input <= Len(libs)
          THEN /\ input' = input + 1
               /\ frame' = Enter(TRUE)
               /\ UNCHANGED outcome
          ELSE /\ \E finish \in {parse_end(flushed.self)} :
                    outcome' = IF finish.ok THEN Succeeded
                               ELSE Failed(finish.msg, finish.arg, 0)
               /\ UNCHANGED <<input, frame>>
  /\ UNCHANGED <<libs, source, hvars, cvars>>

NextParse == ReadLine \/ EndOfInput

\* No parse is running: the state of the parser while the dispatch table
\* is exercised.
NoParse == InitParse({<<>>}, {<<>>})

Init == InitHandlers /\ NoParse

SpecHandlers == Init /\ [][NextHandlers]_vars

(***************************************************************************)
(* The inputs.  Lines are written with a tab after the keyword and before  *)
(* an instruction, as the compiler writes them.                            *)
(***************************************************************************)
SelectorLine == Line("selector", <<>>, 0, <<".", "s", "e", "l", "e", "c", "t", "o", "r", "\n">>)

Globl(name) == Line("globl", name, 0, <<".", "g", "l", "o", "b", "l", "\t">> \o name \o <<"\n">>)

TypeFunction(name) == Line("type", name, 0, <<".", "t", "y", "p", "e", "\t">> \o name \o <<",", " ", "@", "f", "u", "n", "c", "t", "i", "o", "n", "\n">>)

TypeObject(name) == Line("type", name, 0, <<".", "t", "y", "p", "e", "\t">> \o name \o <<",", " ", "@", "o", "b", "j", "e", "c", "t", "\n">>)

Internal(name) == Line("internal", name, 0, <<".", "i", "n", "t", "e", "r", "n", "a", "l", "\t">> \o name \o <<"\n">>)

\* `.internal-alias name, n`, digits being n as written.
Alias(name, n, digits) == Line("alias", name, n, <<".", "i", "n", "t", "e", "r", "n", "a", "l", "-", "a", "l", "i", "a", "s", " ">> \o name \o <<",", " ">> \o digits \o <<"\n">>)

\* `.size name, n`, digits being n as written.
Size(name, n, digits) == Line("size", name, n, <<".", "s", "i", "z", "e", "\t">> \o name \o <<",", " ">> \o digits \o <<"\n">>)

Body(text) == Line("body", <<>>, 0, text)

\* A line of a data object: a value of width bytes.
Value(width, text) == Line("value", <<>>, width, text)

\* A global function section with the lines of its body.
FunctionSection(name, body) == <<Globl(name), TypeFunction(name)>> \o body

\* The two-file example: a selector and a global function in the primary
\* source, an aliased internal function (and another global function) in
\* the library; and a primary source that states the type of the
\* library's function again.
MainSelector == <<SelectorLine, Body(<<"\t", "S", "E", "T", "C", "P", "0", "\n">>)>>

FooFunction == FunctionSection(<<"f", "o", "o">>, <<Body(<<"\t", "A", "C", "C", "E", "P", "T", "\n">>), Body(<<"\t", "R", "E", "T", "\n">>)>>)

BarFunction == FunctionSection(<<"b", "a", "r">>, <<Body(<<"\t", "N", "O", "P", "\n">>)>>)

EpInternal == <<Alias(<<":", "e", "p">>, 0, <<"0">>), Internal(<<":", "e", "p">>), Body(<<"\t", "P", "U", "S", "H", "I", "N", "T", " ", "1", "\n">>)>>

BarTypedAgain == <<TypeFunction(<<"b", "a", "r">>)>>

LinkLibraries == Libraries(Files({EpInternal, BarFunction}))

LinkSources == Files({MainSelector, FooFunction, BarTypedAgain})

InitLink == InitHandlers /\ InitParse(LinkLibraries, LinkSources)

SpecLink == InitLink /\ [][NextParse]_vars

(***************************************************************************)
(* Claims about lookup in the finished table.                              *)
(***************************************************************************)

Covers(op, b) ==
  CASE op[1] = "set" -> op[2] = b
    [] op[1] = "set_range" -> op[2] <= b /\ b < op[3]
    [] op[1] = "add_subset" -> op[2] = b

\* What the builder chains `ops` register for the leading bytes of `bytes`,
\* read off the chains themselves: a loader after `depth` bytes, no
\* registration for the byte at that depth ("unassigned"), or a path that
\* ends on an add_subset byte or before the first byte ("short").
RECURSIVE Registered(_, _, _)
Registered(ops, bytes, depth) ==
  IF bytes = <<>>
  THEN [kind |-> "short", handler |-> "", depth |-> depth]
  ELSE LET hits == {i \in DOMAIN ops : Covers(ops[i], Head(bytes))}
       IN IF hits = {}
          THEN [kind |-> "unassigned", handler |-> "", depth |-> depth + 1]
          ELSE LET op == ops[CHOOSE i \in hits : TRUE]
               IN IF op[1] = "add_subset"
                  THEN Registered(op[3], Tail(bytes), depth + 1)
                  ELSE [kind |-> "loader", handler |-> op[Len(op)], depth |-> depth + 1]

Returned == Built /\ call = "returned"

StartsWith(bytes, prefix) ==
  Len(bytes) >= Len(prefix) /\ SubSeq(bytes, 1, Len(prefix)) = prefix

\* C1: on a slice that begins with a byte path the construction registered
\* with a loader, get_handler returns that loader and never load_unknown;
\* first byte 0x00 gives load_nop and bytes 0x83, 0xFF give load_pushnan.
C1_RegisteredPathResolves ==
  Returned =>
    LET reg == Registered(RootOps, given.bytes, 0)
    IN /\ reg.kind = "loader" =>
            /\ loaded.ok
            /\ loaded.handler = reg.handler
            /\ loaded.handler # "load_unknown"
       /\ StartsWith(given.bytes, <<\H00>>) => loaded.ok /\ loaded.handler = "load_nop"
       /\ StartsWith(given.bytes, <<\H83, \HFF>>) =>
            loaded.ok /\ loaded.handler = "load_pushnan"

C1_Witness ==
  /\ Returned
  /\ given.bytes = <<\H83, \HFF>>
  /\ loaded.ok
  /\ loaded.handler = "load_pushnan"

Inputs == Append(libs, source)

\* parse has returned.
Finished == outcome.state # "running"

\* parse has returned after every pass over every input: ok, or the fault of
\* its end.
PassesDone == Finished /\ outcome.lnum = 0

\* The parser has taken k turns of the loop over the input being read.
LinesRead == frame.locals.lnum

IsOpener(line) == line.role \in {"selector", "globl", "internal", "data"}

\* The number of the line that closes the section opened by line i of
\* file: the next opener, or one past the last line.
SectionEnd(file, i) ==
  CHOOSE j \in (i + 1)..(Len(file) + 1) :
    /\ j = Len(file) + 1 \/ IsOpener(file[j])
    /\ \A k \in (i + 1)..(j - 1) : ~IsOpener(file[k])

\* The text of the lines of a sequence with one of the roles, in order.
RECURSIVE TextOf(_, _)
TextOf(some, roles) ==
  IF some = <<>> THEN <<>>
  ELSE (IF Head(some).role \in roles THEN Head(some).text ELSE <<>>) \o TextOf(Tail(some), roles)

\* s without the line feed that ends it.
Chomp(s) == IF s # <<>> /\ s[Len(s)] = "\n" THEN SubSeq(s, 1, Len(s) - 1) ELSE s

\* The body written for the section opened by line i of file: its body
\* lines up to the end of the last one.
Written(file, i) == Chomp(TextOf(SubSeq(file, i + 1, SectionEnd(file, i) - 1), {"body", "value"}))

EndsWith(s, suffix) ==
  Len(suffix) <= Len(s) /\ SubSeq(s, Len(s) - Len(suffix) + 1, Len(s)) = suffix

\* The places <<k, i>> of the lines with a role: line i of input k.
Places(role) ==
  {p \in UNION {{<<k, i>> : i \in DOMAIN Inputs[k]} : k \in DOMAIN Inputs} :
     Inputs[p[1]][p[2]].role = role}

At(p) == Inputs[p[1]][p[2]]

\* The number of the line that closes the section opened at place p.
FlushOf(p) == SectionEnd(Inputs[p[1]], p[2])

\* The fault parse returned was raised where the section opened at place
\* p is flushed, in the first pass or in the second.
RaisedAtFlush(p, first_pass) ==
  /\ outcome.state = "err"
  /\ input = p[1]
  /\ frame.first_pass = first_pass
  /\ outcome.lnum = FlushOf(p)

\* The section opened at place p has just been flushed without a fault, in
\* the first pass or in the second: the turn of the line that closes it has
\* been taken, or the pass it ends has.
JustFlushed(p, first_pass) ==
  LET last == FlushOf(p) = Len(Inputs[p[1]]) + 1
  IN IF ~last
     THEN /\ outcome.state = "running"
          /\ input = p[1]
          /\ frame.first_pass = first_pass
          /\ LinesRead = FlushOf(p)
     ELSE IF first_pass
     THEN outcome.state = "running" /\ input = p[1] /\ ~frame.first_pass /\ LinesRead = 0
     ELSE \/ outcome.state = "running" /\ input = p[1] + 1 /\ frame.first_pass /\ LinesRead = 0
          \/ PassesDone /\ p[1] = Len(Inputs)

\* C3 (as claimed): after parse returns ok, entry() is the body of the
\* selector section, globals() maps function_id(name) to the body of every
\* global function defined in any input, and internals() maps the ID of
\* every alias to the body of the internal function defined under it.
C3_LinkedDefinitions ==
  outcome.state = "ok" =>
    /\ \A p \in Places("selector") : entry(engine) = Written(Inputs[p[1]], p[2])
    /\ \A p \in Places("globl") :
         {g \in globals(engine) : g[1] = calc_func_id(At(p).name)}
           = {<<calc_func_id(At(p).name), Written(Inputs[p[1]], p[2])>>}
    /\ \A p \in Places("internal") :
         \A a \in Places("alias") :
           At(a).name = At(p).name =>
             /\ At(a).n \in DOMAIN internals(engine)
             /\ internals(engine)[At(a).n] = Written(Inputs[p[1]], p[2])

\* The same for inputs in which no `.type` line is written outside the
\* head of the section of its function.
C3_LinkedDefinitionsOfWholeSections ==
  (\A k \in DOMAIN Inputs : \A i \in DOMAIN Inputs[k] :
     Inputs[k][i].role = "type" => i > 1 /\ Inputs[k][i - 1].role = "globl")
    => C3_LinkedDefinitions

(***************************************************************************)
(* Label references.  The library defines the internal function :ep,       *)
(* aliased to -2, whose body calls the global function foo of the primary  *)
(* source (not yet known when the library is read); the primary source     *)
(* defines foo, whose body refers to :ep and to foo itself, and a selector *)
(* whose line holds two references.                                        *)
(***************************************************************************)
EpCallsFoo == <<Alias(<<":", "e", "p">>, 0 - 2, <<"-", "2">>), Internal(<<":", "e", "p">>), Body(<<"\t", "C", "A", "L", "L", " ", "$", "f", "o", "o", "$", "\n">>)>>

FooCallsEp == FunctionSection(<<"f", "o", "o">>, <<Body(<<"\t", "C", "A", "L", "L", " ", "$", ":", "e", "p", "$", " ", "x", "\n">>), Body(<<"\t", "J", "M", "P", " ", "$", "f", "o", "o", "$", "\n">>)>>)

SelectorCallsBoth == <<SelectorLine, Body(<<"\t", "C", "A", "L", "L", " ", "$", "f", "o", "o", "$", " ", "I", "F", " ", "$", ":", "e", "p", "$", " ", "N", "O", "P", "\n">>)>>

RefsLibraries == Libraries(Files({EpCallsFoo}))

RefsSources == Files({FooCallsEp, SelectorCallsBoth})

InitRefs == InitHandlers /\ InitParse(RefsLibraries, RefsSources)

SpecRefs == InitRefs /\ [][NextParse]_vars

\* The positions of the character c in s.
Occurrences(s, c) == {i \in DOMAIN s : s[i] = c}

Least(S) == CHOOSE i \in S : \A j \in S : i <= j

\* What a reference to name is to be replaced by: the decimal ID of the
\* table the name belongs to, or ??? for a name the table does not hold.
Replacement(self, name) ==
  IF Head(name) = ":"
  THEN IF name \in DOMAIN self.intrefs THEN to_string(self.intrefs[name]) ELSE <<"?", "?", "?">>
  ELSE IF name \in DOMAIN self.xrefs THEN u32_to_string(self.xrefs[name]) ELSE <<"?", "?", "?">>

\* The line with every reference $name$ replaced, the text before, between
\* and after the references kept.
RECURSIVE Substituted(_, _)
Substituted(self, text) ==
  IF Cardinality(Occurrences(text, "$")) < 2 THEN text
  ELSE LET from == Least(Occurrences(text, "$"))
           to == Least(Occurrences(text, "$") \ {from})
       IN SubSeq(text, 1, from - 1) \o Replacement(self, SubSeq(text, from + 1, to - 1))
            \o Substituted(self, SubSeq(text, to + 1, Len(text)))

\* The four big-endian bytes of the number the decimal digits denote,
\* taken modulo 2^32.
RECURSIVE BytesOfDecimal(_)
BytesOfDecimal(digits) ==
  IF digits = <<>> THEN <<0, 0, 0, 0>>
  ELSE LET b == BytesOfDecimal(SubSeq(digits, 1, Len(digits) - 1))
           b4 == 10 * b[4] + DigitValue(digits[Len(digits)])
           b3 == 10 * b[3] + (b4 \div 256)
           b2 == 10 * b[2] + (b3 \div 256)
           b1 == 10 * b[1] + (b2 \div 256)
       IN <<b1 % 256, b2 % 256, b3 % 256, b4 % 256>>

\* text is the decimal numeral of a number: digits without a leading zero.
IsDecimal(text) ==
  /\ text # <<>>
  /\ \A i \in DOMAIN text : text[i] \in Digit
  /\ Len(text) > 1 => text[1] # "0"

\* The longest end of s made of characters of class.
RECURSIVE TrailingRun(_, _)
TrailingRun(s, class) ==
  IF s # <<>> /\ s[Len(s)] \in class
  THEN Append(TrailingRun(SubSeq(s, 1, Len(s) - 1), class), s[Len(s)])
  ELSE <<>>

\* The second pass has just read line number LinesRead, a body line.
JustRead == Reading[LinesRead]

InSecondPass(count) ==
  /\ ~frame.first_pass
  /\ LinesRead >= 1
  /\ JustRead.role = "body"
  /\ Cardinality(Occurrences(JustRead.text, "$")) = 2 * count

\* C4: in pass 2 a body line with one label reference is stored with the
\* reference replaced by the decimal ID of the name in xrefs (of a :name in
\* intrefs), or by ??? when the table does not hold the name, the text
\* before and after it unchanged; the turn raises no fault.
C4_OneReferenceSubstituted ==
  InSecondPass(1) =>
    LET text == JustRead.text
        from == Least(Occurrences(text, "$"))
        to == Least(Occurrences(text, "$") \ {from})
        name == SubSeq(text, from + 1, to - 1)
        before == SubSeq(text, 1, from - 1)
        after == SubSeq(text, to + 1, Len(text))
        stored == frame.locals.obj_body
        upto == SubSeq(stored, 1, Len(stored) - Len(after))
        put == TrailingRun(upto, Digit \cup {"-", "?"})
    IN /\ ~(outcome.state = "err" /\ outcome.lnum = LinesRead)
       /\ EndsWith(stored, after)
       /\ EndsWith(SubSeq(upto, 1, Len(upto) - Len(put)), before)
       /\ IF Head(name) = ":"
          THEN IF name \in DOMAIN engine.intrefs
               THEN LET id == engine.intrefs[name]
                    IN IF id < 0
                       THEN /\ Head(put) = "-"
                            /\ IsDecimal(Tail(put))
                            /\ from_str_radix(put, 0 - I32_MAX - 1, I32_MAX).value = id
                       ELSE /\ IsDecimal(put)
                            /\ from_str_radix(put, 0 - I32_MAX - 1, I32_MAX).value = id
               ELSE put = <<"?", "?", "?">>
          ELSE IF name \in DOMAIN engine.xrefs
               THEN /\ IsDecimal(put)
                    /\ Len(put) <= 10
                    /\ BytesOfDecimal(put) = engine.xrefs[name]
               ELSE put = <<"?", "?", "?">>

\* C4 witness: the parse has succeeded and the body stored for foo holds
\* the ID -2 of :ep and the ID 740734059 of foo, the text around them kept.
C4_Witness ==
  /\ outcome.state = "ok"
  /\ <<":", "e", "p">> \in DOMAIN engine.intrefs
  /\ engine.intrefs[<<":", "e", "p">>] = 0 - 2
  /\ <<"f", "o", "o">> \in DOMAIN engine.xrefs
  /\ engine.xrefs[<<"f", "o", "o">>] = <<44, 38, 180, 107>>
  /\ KnownIdsComputed
  /\ engine.globals[<<"f", "o", "o">>].dtype.body = <<"\t", "C", "A", "L", "L", " ", "-", "2", " ", "x", "\n", "\t", "J", "M", "P", " ", "7", "4", "0", "7", "3", "4", "0", "5", "9">>
  /\ engine.internals[0 - 2] = <<"\t", "C", "A", "L", "L", " ", "?", "?", "?">>

\* C5 (as claimed): in pass 2 a body line with two or more label
\* references is stored with every reference replaced by its ID (or ???)
\* and every text segment before, between and after the references kept.
C5_EveryReferenceSubstituted ==
  InSecondPass(2) => EndsWith(frame.locals.obj_body, Substituted(engine, JustRead.text))

(***************************************************************************)
(* Signed functions.  The primary source defines functions whose names     *)
(* end with _authorized, hold it before another ending, or hold it twice;  *)
(* the library holds the selector.                                         *)
(***************************************************************************)
PayAuthorized == FunctionSection(<<"p", "a", "y", "_", "a", "u", "t", "h", "o", "r", "i", "z", "e", "d">>, <<Body(<<"\t", "A", "C", "C", "E", "P", "T", "\n">>)>>)

PayAuthorizedX == FunctionSection(<<"p", "a", "y", "_", "a", "u", "t", "h", "o", "r", "i", "z", "e", "d", "_", "x">>, <<Body(<<"\t", "A", "C", "C", "E", "P", "T", "\n">>)>>)

PayAuthorizedTwice == FunctionSection(<<"p", "a", "y", "_", "a", "u", "t", "h", "o", "r", "i", "z", "e", "d", "_", "a", "u", "t", "h", "o", "r", "i", "z", "e", "d">>, <<Body(<<"\t", "A", "C", "C", "E", "P", "T", "\n">>)>>)

SignedLibraries == Libraries(Files({MainSelector}))

SignedSources == Files({PayAuthorized, PayAuthorizedX, PayAuthorizedTwice})

InitSigned == InitHandlers /\ InitParse(SignedLibraries, SignedSources)

SpecSigned == InitSigned /\ [][NextParse]_vars

\* C6 (as claimed): for every defined global function name,
\* signed()[function_id(name)] is true exactly when the name ends with
\* _authorized, whatever comes before that ending.
C6_SignedWhenNameEndsWithSuffix ==
  \A name \in DOMAIN engine.xrefs :
    /\ calc_func_id(name) \in DOMAIN signed(engine)
    /\ signed(engine)[calc_func_id(name)] = EndsWith(name, <<"_", "a", "u", "t", "h", "o", "r", "i", "z", "e", "d">>)

(***************************************************************************)
(* Data objects.  The primary source defines the data object d with two    *)
(* .long values and a declared size of 8, of 7 or of 9 bytes.              *)
(***************************************************************************)
TwoLongs == <<Value(4, <<"\t", ".", "l", "o", "n", "g", " ", "1", "\n">>), Value(4, <<"\t", ".", "l", "o", "n", "g", " ", "2", "\n">>)>>

DataSection(name, size) == <<Globl(name), TypeObject(name), size>> \o TwoLongs

Sized8 == DataSection(<<"d">>, Size(<<"d">>, 8, <<"8">>))

Sized7 == DataSection(<<"d">>, Size(<<"d">>, 7, <<"7">>))

Sized9 == DataSection(<<"d">>, Size(<<"d">>, 9, <<"9">>))

DataLibraries == Libraries(Files({}))

DataSources == Files({MainSelector, Sized8, Sized7, Sized9})

InitData == InitHandlers /\ InitParse(DataLibraries, DataSources)

SpecData == InitData /\ [][NextParse]_vars

\* The sum of the n of the lines of a sequence with the role.
RECURSIVE SumOf(_, _)
SumOf(some, role) ==
  IF some = <<>> THEN 0
  ELSE (IF Head(some).role = role THEN Head(some).n ELSE 0) + SumOf(Tail(some), role)

\* The declared size and the width of the values of the data object opened
\* by line i of file.
Declared(file, i) == SumOf(SubSeq(file, i + 1, SectionEnd(file, i) - 1), "size")

Widths(file, i) == SumOf(SubSeq(file, i + 1, SectionEnd(file, i) - 1), "value")

\* C7 (as claimed): a data object is accepted exactly when its declared
\* size is the sum of the widths of its values; a smaller size faults on
\* the value that exceeds what is left, a larger one where the section
\* closes.
C7_SizeIsSumOfWidths ==
  \A p \in Places("globl") :
    LET declared == Declared(Inputs[p[1]], p[2])
        widths == Widths(Inputs[p[1]], p[2])
    IN /\ JustFlushed(p, TRUE) => declared = widths
       /\ RaisedAtFlush(p, TRUE) =>
            /\ declared # widths
            /\ declared < widths =>
                 outcome.msg = "global object has invalid .size parameter: too small)"
            /\ declared > widths =>
                 outcome.msg = "global object has invalid .size parameter: bigger than defined values"

(***************************************************************************)
(* Selectors.  A library or the primary source holds a selector with a     *)
(* body, a selector without one, or none.                                  *)
(***************************************************************************)
BlankSelector == <<SelectorLine>>

SelectorLibraries == Libraries(Files({MainSelector, BlankSelector}))

SelectorSources == Files({MainSelector, BlankSelector, FooFunction})

InitSelector == InitHandlers /\ InitParse(SelectorLibraries, SelectorSources)

SpecSelector == InitSelector /\ [][NextParse]_vars

\* The inputs that hold a `.selector` section.
WithSelector == {k \in DOMAIN Inputs : \E i \in DOMAIN Inputs[k] : Inputs[k][i].role = "selector"}

\* C8 (as claimed): when two inputs of the parse call each hold a
\* `.selector` section, parse fails with "Another selector found",
\* whatever the bodies of the sections are.
C8_SecondSelectorRejected ==
  (Finished /\ Cardinality(WithSelector) >= 2) =>
    outcome = Failed("Another selector found", <<>>, outcome.lnum)

\* C9 (as claimed): when the primary source holds no `.selector` section,
\* parse fails with "Selector not found".
C9_PrimaryWithoutSelectorFails ==
  (Finished /\ Len(libs) + 1 \notin WithSelector) =>
    outcome = Failed("Selector not found", <<>>, 0)

\* The places of the selector sections that have a body.
SelectorsWithBody == {p \in Places("selector") : Written(Inputs[p[1]], p[2]) # <<>>}

\* C9 (amended): when no pass raises a fault, parse fails with "Selector not
\* found" exactly when no input, the primary source or a library, holds a
\* `.selector` section with a body; a primary source without a selector is
\* accepted when a library holds one.
C9_SelectorNotFound ==
  /\ outcome.msg = "Selector not found" => PassesDone
  /\ PassesDone =>
       (outcome = Failed("Selector not found", <<>>, 0) <=> SelectorsWithBody = {})

\* C9 witness: a primary source without a selector, and no library with
\* one, has failed with "Selector not found".
C9_Witness ==
  /\ outcome = Failed("Selector not found", <<>>, 0)
  /\ source # <<>>
  /\ WithSelector = {}

\* C9, the other case of the amended claim: a primary source without a
\* selector has been accepted, the selector being in a library.
C9_LibrarySelectorAccepted ==
  /\ outcome.state = "ok"
  /\ source # <<>>
  /\ Len(libs) + 1 \notin WithSelector

(***************************************************************************)
(* Aliases.  The primary source defines the internal function :ep with its *)
(* alias written before the `.internal` line, after the body, or not at    *)
(* all; a library may hold another alias of :ep.                           *)
(***************************************************************************)
EpAliasedLate == <<Internal(<<":", "e", "p">>), Body(<<"\t", "P", "U", "S", "H", "I", "N", "T", " ", "2", "\n">>), Alias(<<":", "e", "p">>, 0, <<"0">>)>>

EpUnaliased == <<Internal(<<":", "e", "p">>), Body(<<"\t", "P", "U", "S", "H", "I", "N", "T", " ", "3", "\n">>)>>

EpAliasOnly == <<Alias(<<":", "e", "p">>, 3, <<"3">>)>>

AliasLibraries == Libraries(Files({EpAliasOnly}))

AliasSources == Files({EpInternal, EpAliasedLate, EpUnaliased, MainSelector})

InitAlias == InitHandlers /\ InitParse(AliasLibraries, AliasSources)

SpecAlias == InitAlias /\ [][NextParse]_vars

Greatest(S) == CHOOSE i \in S : \A j \in S : i >= j

\* The numbers of the lines lo..hi of input k that alias name.
AliasLines(k, lo, hi, name) ==
  {i \in lo..hi : Inputs[k][i].role = "alias" /\ Inputs[k][i].name = name}

NoAlias == [some |-> FALSE, n |-> 0]

\* The last alias of name in the inputs 1..k.
RECURSIVE LastAliasIn(_, _)
LastAliasIn(k, name) ==
  IF k = 0 THEN NoAlias
  ELSE LET here == AliasLines(k, 1, Len(Inputs[k]), name)
       IN IF here # {} THEN [some |-> TRUE, n |-> Inputs[k][Greatest(here)].n]
          ELSE LastAliasIn(k - 1, name)

\* The last alias of name written before line j of input k, in this input
\* or an earlier one.
LastAliasBefore(k, j, name) ==
  LET here == AliasLines(k, 1, j - 1, name)
  IN IF here # {} THEN [some |-> TRUE, n |-> Inputs[k][Greatest(here)].n]
     ELSE LastAliasIn(k - 1, name)

\* The last alias of name the parser has read when a pass over input k
\* comes to line j: one of the lines before j if there is one; otherwise,
\* in the second pass, the last one of the whole input, left by the first
\* pass; otherwise the last one of the earlier inputs.
LastAliasRead(k, j, first_pass, name) ==
  IF first_pass \/ AliasLines(k, 1, j - 1, name) # {}
  THEN LastAliasBefore(k, j, name)
  ELSE LastAliasIn(k, name)

IdNotFound(name) == outcome.msg = "id for '{}' not found" /\ outcome.arg = name

\* What the flush of the internal section at place p has to do when alias
\* is the alias its name has: fault without one, store the body under the
\* ID of the alias with one.
FlushedUnder(p, first_pass, alias) ==
  LET name == At(p).name
  IN /\ (RaisedAtFlush(p, first_pass) /\ IdNotFound(name)) => ~alias.some
     /\ (~alias.some /\ (RaisedAtFlush(p, first_pass) \/ JustFlushed(p, first_pass))) =>
          RaisedAtFlush(p, first_pass) /\ IdNotFound(name)
     /\ (alias.some /\ JustFlushed(p, first_pass)) =>
          /\ alias.n \in DOMAIN internals(engine)
          /\ internals(engine)[alias.n] = Written(Inputs[p[1]], p[2])
          /\ internal_by_name(engine, name) =
               [some |-> TRUE, id |-> alias.n, body |-> Written(Inputs[p[1]], p[2])]

\* C10 (as claimed): an `.internal :NAME` section with no `.internal-alias
\* :NAME, N` line before the `.internal :NAME` line, in this input or an
\* earlier one, makes parse fail with "id for ':NAME' not found"; with such
\* an alias the section is stored under the ID N.
C10_AliasBeforeInternalLine ==
  \A p \in Places("internal") : \A first_pass \in BOOLEAN :
    FlushedUnder(p, first_pass, LastAliasBefore(p[1], p[2], At(p).name))

\* C10 (amended): the alias is looked up when the section is flushed, at
\* the next section opener or the end of the input: parse fails with "id
\* for ':NAME' not found" exactly when no alias of :NAME has been read by
\* then, and otherwise the section is stored under the ID of the last alias
\* of :NAME read by then, which may be written inside the section, after
\* the `.internal :NAME` line.
C10_AliasReadBeforeFlush ==
  \A p \in Places("internal") : \A first_pass \in BOOLEAN :
    FlushedUnder(p, first_pass, LastAliasRead(p[1], FlushOf(p), first_pass, At(p).name))

\* C10 witness: an internal section whose only alias is written after its
\* `.internal` line has been flushed in the first pass and is stored under
\* the ID of that alias.
C10_Witness ==
  \E p \in Places("internal") :
    /\ JustFlushed(p, TRUE)
    /\ ~LastAliasBefore(p[1], p[2], At(p).name).some
    /\ LastAliasRead(p[1], FlushOf(p), TRUE, At(p).name) = [some |-> TRUE, n |-> 0]
    /\ internals(engine) = (0 :> <<"\t", "P", "U", "S", "H", "I", "N", "T", " ", "2">>)

\* C10, the fault: an internal section without any alias read by its flush
\* has made parse fail.
C10_FaultWitness ==
  \E p \in Places("internal") :
    /\ RaisedAtFlush(p, TRUE)
    /\ IdNotFound(<<":", "e", "p">>)
    /\ ~LastAliasRead(p[1], FlushOf(p), TRUE, At(p).name).some

(***************************************************************************)
(* Definitions made twice.  The function foo and the internal function     *)
(* :ep (ID 0) may be written in a library and in the primary source, or    *)
(* twice in one of them; :two is another name under the ID 0.              *)
(***************************************************************************)
TwoInternal == <<Alias(<<":", "t", "w", "o">>, 0, <<"0">>), Internal(<<":", "t", "w", "o">>), Body(<<"\t", "P", "U", "S", "H", "I", "N", "T", " ", "4", "\n">>)>>

DupLibraries == Libraries({FooFunction, EpInternal})

DupSources == Files({MainSelector, FooFunction, EpInternal, TwoInternal})

InitDup == InitHandlers /\ InitParse(DupLibraries, DupSources)

SpecDup == InitDup /\ [][NextParse]_vars

\* Place q comes before place p in the order the inputs are read.
Before(q, p) == q[1] < p[1] \/ (q[1] = p[1] /\ q[2] < p[2])

\* The `.globl` sections that are functions when they are flushed: the
\* `.type NAME, @function` line follows the `.globl NAME` line and no other
\* `.type` line of NAME stands in the section.
FunctionPlaces ==
  {p \in Places("globl") :
     /\ p[2] < Len(Inputs[p[1]])
     /\ Inputs[p[1]][p[2] + 1] = TypeFunction(At(p).name)
     /\ \A i \in (p[2] + 2)..(FlushOf(p) - 1) :
          ~(Inputs[p[1]][i].role = "type" /\ Inputs[p[1]][i].name = At(p).name)}

FunctionExists == outcome.msg = "global function with id = {} already exist"

InternalExists == outcome.msg = "internal function with id = {} already exist"

\* A function section of the same name is written before place p.
DefinedBefore(p) ==
  \E q \in FunctionPlaces : Before(q, p) /\ At(q).name = At(p).name

\* The ID an internal section is stored under by a pass.
IdAtFlush(p, first_pass) == LastAliasRead(p[1], FlushOf(p), first_pass, At(p).name)

\* An internal section written before place p has been stored under the ID
\* n: by its first pass, or, in an earlier input, by its second pass.
IdStoredBefore(p, n) ==
  \E q \in Places("internal") :
    /\ Before(q, p)
    /\ \/ IdAtFlush(q, TRUE) = [some |-> TRUE, n |-> n]
       \/ q[1] < p[1] /\ IdAtFlush(q, FALSE) = [some |-> TRUE, n |-> n]

\* C11: the first-pass flush of a global function whose name is already
\* defined, or of an internal function whose ID is already in internals,
\* fails, the earlier definition being in the same input or in an input
\* parsed before; the second-pass flush of a definition never fails for
\* that reason.
C11_DuplicateDefinitionFaults ==
  /\ \A p \in FunctionPlaces :
       /\ (RaisedAtFlush(p, TRUE) \/ JustFlushed(p, TRUE)) =>
            ((RaisedAtFlush(p, TRUE) /\ FunctionExists) <=> DefinedBefore(p))
       /\ ~(RaisedAtFlush(p, FALSE) /\ (FunctionExists \/ InternalExists))
  /\ \A p \in Places("internal") :
       /\ (IdAtFlush(p, TRUE).some /\ (RaisedAtFlush(p, TRUE) \/ JustFlushed(p, TRUE))) =>
            ((RaisedAtFlush(p, TRUE) /\ InternalExists)
               <=> IdStoredBefore(p, IdAtFlush(p, TRUE).n))
       /\ ~(RaisedAtFlush(p, FALSE) /\ (FunctionExists \/ InternalExists))

\* C11 witness: the function foo of the library is written again in the
\* primary source, and its first-pass flush there has failed.
C11_Witness ==
  \E p \in FunctionPlaces :
    /\ p[1] = Len(Inputs) /\ p[1] > 1
    /\ RaisedAtFlush(p, TRUE) /\ FunctionExists
    /\ outcome.arg = <<"7", "4", "0", "7", "3", "4", "0", "5", "9">>
    /\ \E q \in FunctionPlaces : q[1] < p[1] /\ At(q).name = At(p).name
    /\ ~\E q \in FunctionPlaces : q[1] = p[1] /\ q[2] < p[2]

\* C11, one input: the second section of an ID in the same file has failed.
C11_SameInputWitness ==
  \E p \in Places("internal") :
    /\ RaisedAtFlush(p, TRUE) /\ InternalExists
    /\ At(p).name = <<":", "t", "w", "o">>
    /\ \E q \in Places("internal") : q[1] = p[1] /\ q[2] < p[2] /\ At(q).name = <<":", "e", "p">>

\* C11, second pass: a function stored by the first pass has been flushed
\* again by the second.
C11_SecondPassWitness ==
  \E p \in FunctionPlaces :
    /\ JustFlushed(p, FALSE)
    /\ At(p).name \in DOMAIN engine.xrefs
    /\ engine.globals[At(p).name].dtype.body = Written(Inputs[p[1]], p[2])

(***************************************************************************)
(* One dispatch node under construction.  set, set_range and add_subset    *)
(* are applied to a new node in any order, on the first bytes and with     *)
(* loaders the code page registers; given keeps the node as it was before  *)
(* the last operation, call the operation.                                 *)
(***************************************************************************)

\* How many operations are applied to the node at most.
MaxOps == 3

NodeCodes == {\H00, \H01, \H02}

NodeLoaders == {"load_nop", "load_pushnan"}

\* The ranges lo..hi given to set_range, hi excluded.
NodeRanges == {<<\H00, \H02>>, <<\H01, \H03>>, <<\H00, \H03>>}

\* The children given to add_subset: a new node, or one with a loader set.
NodeChildren == {Handlers_new, set(Handlers_new, \HFF, "load_pushnan")}

InitNode ==
  /\ cp0 = Handlers_new
  /\ built = 0
  /\ call = <<"new">>
  /\ given = Handlers_new
  /\ rest = EmptySlice
  /\ loaded = NoHandler
  /\ NoParse
  /\ NoCommand

\* One operation of the builder chain applied to the node.
Applies(op, next) ==
  /\ built < MaxOps
  /\ ~IsPanic(cp0)
  /\ given' = cp0
  /\ call' = op
  /\ cp0' = next
  /\ built' = built + 1
  /\ UNCHANGED <<rest, loaded, pvars, cvars>>

NodeSet ==
  \E code \in NodeCodes, handler \in NodeLoaders :
    Applies(<<"set", code, handler>>, set(cp0, code, handler))

NodeSetRange ==
  \E codes \in NodeRanges, handler \in NodeLoaders :
    Applies(<<"set_range", codes[1], codes[2], handler>>,
            set_range(cp0, codes[1], codes[2], handler))

NodeAddSubset ==
  \E code \in NodeCodes, subset \in NodeChildren :
    Applies(<<"add_subset", code, subset>>, add_subset(cp0, code, subset))

NextNode == NodeSet \/ NodeSetRange \/ NodeAddSubset

SpecNode == InitNode /\ [][NextNode]_vars

\* The slot of a byte holds something else than what Handlers::new put.
Occupied(self, code) == self.directs[code] # Direct("load_unknown")

\* The slots the operation writes.
Targets(op) == {code \in Byte : Covers(op, code)}

\* What the operation puts into the slot of code of the node self.
Occupant(self, op, code) ==
  CASE op[1] = "set" -> Direct(op[3])
    [] op[1] = "set_range" -> Direct(op[4])
    [] op[1] = "add_subset" -> Subset(Len(self.subsets))

\* C12: on one node, set, set_range and add_subset abort the construction
\* when a slot they target is occupied, by a Direct loader or by a Subset,
\* whatever the order of the operations, and no occupant is overwritten;
\* with every target free the operation fills its targets and leaves the
\* other slots alone.
C12_OccupiedSlotAborts ==
  call # <<"new">> =>
    /\ (\E code \in Targets(call) : Occupied(given, code)) => IsPanic(cp0)
    /\ ~IsPanic(cp0) =>
         \A code \in Byte :
           cp0.directs[code] = IF code \in Targets(call)
                               THEN Occupant(given, call, code)
                               ELSE given.directs[code]
    /\ (\A code \in Targets(call) : ~Occupied(given, code)) => ~IsPanic(cp0)

\* C12 witness: a set_range over a slot that an add_subset filled before
\* has aborted the construction.
C12_Witness ==
  /\ call[1] = "set_range"
  /\ \E code \in Targets(call) : given.directs[code].tag = "Subset"
  /\ IsPanic(cp0)

\* C12, the other orders: an add_subset on a slot that holds a loader, and a
\* set on a slot that holds a Subset, have aborted the construction.
C12_SubsetOnLoaderWitness ==
  /\ call[1] = "add_subset"
  /\ given.directs[call[2]] = Direct("load_nop")
  /\ IsPanic(cp0)

C12_SetOnSubsetWitness ==
  /\ call[1] = "set"
  /\ given.directs[call[2]].tag = "Subset"
  /\ IsPanic(cp0)

(***************************************************************************)
(* Claims about how much of the slice get_handler reads.                   *)
(***************************************************************************)

\* How many whole bytes the last get_handler call consumed.
Consumed == Len(given.bytes) - Len(rest.bytes)

\* The root slot of the first byte of the given slice.
RootSlot == cp0.directs[Head(given.bytes)]

\* C13 as claimed: a successful get_handler on the code-page-0 table moves
\* the slice past exactly one byte when the root slot of the first byte is
\* Direct and past exactly two bytes when it is a Subset, and the bits after
\* the last whole byte are not touched.
C13_ConsumesOneOrTwoBytes ==
  (Returned /\ loaded.ok) =>
    /\ given.bytes # <<>>
    /\ RootSlot.tag = "Direct" => Consumed = 1
    /\ RootSlot.tag = "Subset" => Consumed = 2
    /\ rest.bytes = SubSeq(given.bytes, Consumed + 1, Len(given.bytes))
    /\ rest.bits = given.bits

\* C13 as amended: a successful get_handler on the code-page-0 table moves
\* the slice past exactly one byte per level of the table it went through:
\* one byte when the root slot of the first byte is Direct, two bytes behind
\* one Subset, three bytes behind the Subset 0xB6 nested in the Subset 0xB7;
\* what is left is the given slice without those bytes, and the bits after
\* the last whole byte are not touched.
C13_ConsumesOneBytePerLevel ==
  (Returned /\ loaded.ok) =>
    LET reg == Registered(RootOps, given.bytes, 0)
    IN /\ reg.kind # "short"
       /\ Consumed = reg.depth
       /\ Consumed \in 1..3
       /\ RootSlot.tag = "Direct" <=> Consumed = 1
       /\ Consumed = 3 <=> StartsWith(given.bytes, <<\HB7, \HB6>>)
       /\ rest.bytes = SubSeq(given.bytes, Consumed + 1, Len(given.bytes))
       /\ rest.bits = given.bits

\* C13 witness: the three bytes of the quiet FITSX were consumed, one for
\* each of the three levels.
C13_Witness ==
  /\ Returned
  /\ loaded.ok
  /\ loaded.handler = "load_fitsx::<Quiet>"
  /\ given.bytes = <<\HB7, \HB6, \H00>>
  /\ rest.bytes = <<>>

\* C13, one Subset: PUSHNAN's two bytes, followed by three more bits, were
\* consumed and the three bits are left.
C13_SubsetWitness ==
  /\ Returned
  /\ loaded.ok
  /\ given = [bytes |-> <<\H83, \HFF>>, bits |-> 3]
  /\ rest = [bytes |-> <<>>, bits |-> 3]

\* C13, the root case: one byte of 0x00 followed by an operand byte.
C13_RootWitness ==
  /\ Returned
  /\ loaded.ok
  /\ given.bytes = <<\H00, 0>>
  /\ rest.bytes = <<0>>

\* C14: get_handler returns a decoding failure, and no loader, when the
\* slice has no whole byte left at the level it reads: a slice without a
\* whole byte at the root, and a slice that ends after the byte of a Subset
\* slot, such as the single byte 0x83.
C14_ShortSliceFails ==
  Returned =>
    /\ Registered(RootOps, given.bytes, 0).kind = "short" =>
         /\ ~loaded.ok
         /\ loaded.handler = ""
         /\ loaded.err = "get_next_byte"
    /\ given.bytes \in {<<>>, <<\H83>>} => ~loaded.ok

\* C14 witness: the slice held only 0x83 and the call failed.
C14_Witness ==
  /\ Returned
  /\ given.bytes = <<\H83>>
  /\ ~loaded.ok
  /\ loaded.err = "get_next_byte"

\* C14, the root case: a slice of three bits.
C14_RootWitness ==
  /\ Returned
  /\ given = [bytes |-> <<>>, bits |-> 3]
  /\ ~loaded.ok

(***************************************************************************)
(* The data dictionary.  The primary source defines the data object d of   *)
(* six bytes with a .short and a .long value, and the data object e        *)
(* without a value.                                                        *)
(***************************************************************************)
ShortLong6 ==
  <<Globl(<<"d">>), TypeObject(<<"d">>), Size(<<"d">>, 6, <<"6">>),
    Value(2, <<"\t", ".", "s", "h", "o", "r", "t", " ", "1", "\n">>), Value(4, <<"\t", ".", "l", "o", "n", "g", " ", "2", "\n">>)>>

NoValues == <<Globl(<<"e">>), TypeObject(<<"e">>)>>

DictLibraries == Libraries(Files({}))

DictSources == Files({MainSelector, ShortLong6, NoValues})

InitDict == InitHandlers /\ InitParse(DictLibraries, DictSources)

SpecDict == InitDict /\ [][NextParse]_vars

\* The widths, in bits, of the values declared in the inputs, in the order
\* of their lines.
RECURSIVE DeclaredBits(_)
DeclaredBits(some) ==
  IF some = <<>> THEN <<>>
  ELSE (IF Head(some).role = "value" THEN <<8 * Head(some).n>> ELSE <<>>)
         \o DeclaredBits(Tail(some))

\* The dictionary holds the keys 0..n-1 and nothing else.
KeysUpTo(dict, n) == DOMAIN dict = 0..(n - 1)

\* C15: after a successful parse data() holds a dictionary whose keys are
\* exactly 0..N-1 for the N values declared in the data objects, each stored
\* with its declared width; the source with the selector and the six-byte
\* object of `.short 1` and `.long 2` is parsed with success and gives key 0
\* the 16-bit 1 and key 1 the 32-bit 2.
C15_DataHoldsDeclaredValues ==
  /\ (PassesDone /\ outcome = Succeeded) =>
       \A cell \in data(engine) :
         LET dict == cell.references[1]
             bits == DeclaredBits(Concat(Inputs))
         IN /\ KeysUpTo(dict, Len(bits))
            /\ \A i \in DOMAIN bits : 8 * dict[i - 1].length = bits[i]
  /\ (Finished /\ source = MainSelector \o ShortLong6) =>
       /\ outcome = Succeeded
       /\ \A cell \in data(engine) :
            /\ KeysUpTo(cell.references[1], 2)
            /\ cell.references[1][0] = [integer |-> 1, length |-> 2]
            /\ cell.references[1][1] = [integer |-> 2, length |-> 4]

\* Where C15 fails: parse has returned a fault on the source of the example.
C15_ExampleFaults ==
  /\ Finished
  /\ source = MainSelector \o ShortLong6
  /\ outcome.state = "err"
  /\ outcome.msg = "Unsupported parameter {}"
  /\ outcome.arg = <<"s", "h", "o", "r", "t">>

\* A source with data objects that is parsed with success: its objects hold
\* no value and the dictionary is empty.
C15_EmptyDictionary ==
  /\ PassesDone
  /\ outcome = Succeeded
  /\ source = MainSelector \o NoValues
  /\ data(engine) = {[references |-> <<EmptyMap>>]}

(***************************************************************************)
(* What the engine exposes after parse has returned a fault.               *)
(***************************************************************************)

\* The accessors of the engine return what they return on a new engine.
ExposesNothing(self) ==
  /\ entry(self) = entry(ParseEngine_new)
  /\ globals(self) = globals(ParseEngine_new)
  /\ internals(self) = internals(ParseEngine_new)
  /\ signed(self) = signed(ParseEngine_new)
  /\ data(self) = data(ParseEngine_new)

\* C16: when parse returns a fault no partial result is exposed: entry(),
\* globals(), internals(), signed() and data() hold nothing of what was
\* collected from the inputs up to the fault.
C16_FaultExposesNothing == outcome.state = "err" => ExposesNothing(engine)

\* Where C16 fails: the source holds the function foo and no selector; parse
\* has returned "Selector not found" and globals() and signed() hold foo.
C16_PartialResultExposed ==
  /\ outcome = Failed("Selector not found", <<>>, 0)
  /\ libs = <<>>
  /\ source = FooFunction
  /\ globals(engine) = {<<calc_func_id(<<"f", "o", "o">>), <<"\t", "A", "C", "C", "E", "P", "T", "\n", "\t", "R", "E", "T">>>>}
  /\ DOMAIN signed(engine) = {calc_func_id(<<"f", "o", "o">>)}

(***************************************************************************)
(* Numbers that cannot be read.  The primary source declares the size of   *)
(* the data object d as `x`, and aliases :ep as `x` or as a number past    *)
(* the greatest i32; the n of these lines is not used.                     *)
(***************************************************************************)
SizeUnreadable == Size(<<"d">>, 0, <<"x">>)

AliasUnreadable == Alias(<<":", "e", "p">>, 0, <<"x">>)

AliasOutOfRange == Alias(<<":", "e", "p">>, 0, <<"2", "1", "4", "7", "4", "8", "3", "6", "4", "8">>)

InvalidNumbers == {SizeUnreadable, AliasUnreadable, AliasOutOfRange}

NumberSources ==
  Files({MainSelector, <<Globl(<<"d">>), TypeObject(<<"d">>), SizeUnreadable>>,
         <<AliasUnreadable>>, <<AliasOutOfRange>>})

InitNumbers == InitHandlers /\ InitParse(Libraries(Files({})), NumberSources)

SpecNumbers == InitNumbers /\ [][NextParse]_vars

\* parse has gone on after the turn of the line at place p.
ReadPast(p) ==
  \/ outcome.state = "ok"
  \/ /\ outcome.state = "running"
     /\ \/ input > p[1]
        \/ input = p[1] /\ (~frame.first_pass \/ LinesRead >= p[2])

\* C17: a `.size` or `.internal-alias` line whose number is not one of the
\* field (not decimal digits, or out of its range) makes parse fail: parse
\* never goes on after the line and never returns ok.
C17_InvalidNumberFaults ==
  \A p \in Places("size") \cup Places("alias") :
    At(p) \in InvalidNumbers => ~ReadPast(p)

\* Where C17 fails: the size `x` has been taken for 0 and parse has
\* returned ok.
C17_SizeDefaulted ==
  /\ outcome = Succeeded
  /\ source = MainSelector \o <<Globl(<<"d">>), TypeObject(<<"d">>), SizeUnreadable>>
  /\ engine.globals[<<"d">>].size = 0
  /\ engine.globals[<<"d">>].dtype = Data(<<>>)

\* Where C17 fails: the alias line with `x` has been taken for a line of
\* the body of the selector and parse has returned ok.
C17_AliasTakenAsBody ==
  /\ outcome = Succeeded
  /\ source = MainSelector \o <<AliasUnreadable>>
  /\ engine.aliases = EmptyMap
  /\ entry(engine) = <<"\t", "S", "E", "T", "C", "P", "0", "\n", ".", "i", "n", "t", "e", "r", "n", "a", "l", "-", "a", "l", "i", "a", "s", " ", ":", "e", "p", ",", " ", "x">>

\* Where the code does what C17 says: the alias past the greatest i32 has
\* raised the fault at its line.
C17_AliasOutOfRangeFaults ==
  /\ source = MainSelector \o <<AliasOutOfRange>>
  /\ outcome = Failed("line: '{}': failed to parse id", AliasOutOfRange.text, 3)

(***************************************************************************)
(* Kinds.  The primary source opens the section of foo with its kind       *)
(* written as function, as another kind, or not at all, and the section of *)
(* the data objects e and d; a library may hold a `.type` line of foo.     *)
(***************************************************************************)
TypeOther(name) == Line("type", name, 0, <<".", "t", "y", "p", "e", "\t">> \o name \o <<",", " ", "@", "n", "o", "t", "y", "p", "e", "\n">>)

FooUntyped == <<Globl(<<"f", "o", "o">>), Body(<<"\t", "N", "O", "P", "\n">>)>>

FooOther == <<Globl(<<"f", "o", "o">>), TypeOther(<<"f", "o", "o">>), Body(<<"\t", "N", "O", "P", "\n">>)>>

KindLibraries == Libraries({<<TypeFunction(<<"f", "o", "o">>)>>})

KindSources == Files({MainSelector, FooFunction, FooUntyped, FooOther, NoValues, ShortLong6})

InitKinds == InitHandlers /\ InitParse(KindLibraries, KindSources)

SpecKinds == InitKinds /\ [][NextParse]_vars

\* The kind a `.type` line names, as its author wrote it.
KindOf(line) ==
  CASE line = TypeFunction(line.name) -> "function"
    [] line = TypeObject(line.name) -> "object"
    [] OTHER -> "other"

\* The numbers of the lines lo..hi of input k that are `.type` lines of name.
TypeLines(k, lo, hi, name) ==
  {i \in lo..hi : Inputs[k][i].role = "type" /\ Inputs[k][i].name = name}

\* The kind of the last `.type` line of name in the inputs 1..k.
RECURSIVE LastKindIn(_, _)
LastKindIn(k, name) ==
  IF k = 0 THEN "none"
  ELSE LET here == TypeLines(k, 1, Len(Inputs[k]), name)
       IN IF here # {} THEN KindOf(Inputs[k][Greatest(here)])
          ELSE LastKindIn(k - 1, name)

\* The kind of the last `.type` line of name the parser has read when a
\* pass over input k comes to line j: one of the lines before j if there is
\* one; otherwise, in the second pass, the last one of the whole input, left
\* by the first pass; otherwise the last one of the earlier inputs.
LastKindRead(k, j, first_pass, name) ==
  LET here == TypeLines(k, 1, j - 1, name)
  IN IF here # {} THEN KindOf(Inputs[k][Greatest(here)])
     ELSE IF first_pass THEN LastKindIn(k - 1, name)
     ELSE LastKindIn(k, name)

KindUnknown(name) ==
  /\ outcome.msg = "The type of global object {} is unknown. Use: .type {}, xxx"
  /\ outcome.arg = name

C18_UntypedWitness ==
  /\ source = FooUntyped
  /\ libs = <<>>
  /\ outcome = Failed("The type of global object {} is unknown. Use: .type {}, xxx", <<"f", "o", "o">>, 3)

\* C18, the kind set by a `.type` line of a library: the section of foo
\* without a `.type` line of its own has been flushed as a function in both
\* passes.
C18_KindFromLibraryWitness ==
  /\ libs = <<<<TypeFunction(<<"f", "o", "o">>)>>>>
  /\ source = MainSelector \o FooUntyped
  /\ outcome = Succeeded
  /\ globals(engine) = {<<calc_func_id(<<"f", "o", "o">>), <<"\t", "N", "O", "P">>>>}

\* C18, a data object: the section of e has been flushed.
C18_ObjectWitness ==
  /\ source = MainSelector \o NoValues
  /\ outcome = Succeeded
  /\ engine.globals[<<"e">>].dtype = Data(<<>>)

(***************************************************************************)
(* Function IDs.  The function constructor is defined in a library, in the *)
(* primary source, or in both, next to the function foo.                   *)
(***************************************************************************)
ConstructorFunction == FunctionSection(<<"c", "o", "n", "s", "t", "r", "u", "c", "t", "o", "r">>, <<Body(<<"\t", "A", "C", "C", "E", "P", "T", "\n">>)>>)

IdLibraries == Libraries({ConstructorFunction})

IdSources == Files({MainSelector, ConstructorFunction, FooFunction})

InitIds == InitHandlers /\ InitParse(IdLibraries, IdSources)

SpecIds == InitIds /\ [][NextParse]_vars

\* The first four bytes of the SHA-256 of each of the names of the inputs.
DigestIds == [name \in {<<"c", "o", "n", "s", "t", "r", "u", "c", "t", "o", "r">>, <<"f", "o", "o">>} |-> Sha256Id(name)]

\* The ID stored for every name is the one of the digest of the name: in
\* xrefs, in the object of the name and as a key of signed.
IdsAreDigests ==
  \A name \in DOMAIN engine.xrefs :
    /\ engine.xrefs[name] = DigestIds[name]
    /\ engine.globals[name].dtype.tag = "Function" =>
         engine.globals[name].dtype.id \in {DigestIds[name], <<0, 0, 0, 0>>}
    /\ DigestIds[name] \in DOMAIN signed(engine)

\* C19 as claimed: the ID of a name is the first four bytes of the SHA-256
\* of the name, the same after every pass over every input, and the ID of
\* constructor is 0x68B55F3F.
C19_ConstructorIdAsClaimed ==
  /\ IdsAreDigests
  /\ <<"c", "o", "n", "s", "t", "r", "u", "c", "t", "o", "r">> \in DOMAIN engine.xrefs =>
       engine.xrefs[<<"c", "o", "n", "s", "t", "r", "u", "c", "t", "o", "r">>] = <<\H68, \HB5, \H5F, \H3F>>

\* C19 as amended: the ID of a name is the first four bytes of the SHA-256
\* of the name, most significant first, the same after every pass over every
\* input, and the ID of constructor is 0xE3C1703A.
C19_IdIsDigestPrefix ==
  /\ IdsAreDigests
  /\ <<"c", "o", "n", "s", "t", "r", "u", "c", "t", "o", "r">> \in DOMAIN engine.xrefs =>
       engine.xrefs[<<"c", "o", "n", "s", "t", "r", "u", "c", "t", "o", "r">>] = <<\HE3, \HC1, \H70, \H3A>>

\* C19 witness: constructor has been flushed in both passes of a library and
\* in the first pass of the primary source, where the ID, printed as a
\* decimal number, is found in use.
C19_Witness ==
  /\ libs = <<ConstructorFunction>>
  /\ source = ConstructorFunction
  /\ outcome = Failed("global function with id = {} already exist", <<"3", "8", "2", "1", "1", "0", "5", "2", "1", "0">>, 4)
  /\ <<"c", "o", "n", "s", "t", "r", "u", "c", "t", "o", "r">> \in DOMAIN engine.xrefs
  /\ engine.xrefs[<<"c", "o", "n", "s", "t", "r", "u", "c", "t", "o", "r">>] = Sha256Id(<<"c", "o", "n", "s", "t", "r", "u", "c", "t", "o", "r">>)

(***************************************************************************)
(* What the tables hold when the second pass of an input runs.             *)
(***************************************************************************)

\* The name of the first reference of a line.
ReferenceOf(text) ==
  LET from == Least(Occurrences(text, "$"))
      to == Least(Occurrences(text, "$") \ {from})
  IN SubSeq(text, from + 1, to - 1)

\* What stands in the stored body in the place of the one reference of the
\* line text, the last line stored.
PutFor(text, stored) ==
  LET from == Least(Occurrences(text, "$"))
      to == Least(Occurrences(text, "$") \ {from})
      after == SubSeq(text, to + 1, Len(text))
  IN TrailingRun(SubSeq(stored, 1, Len(stored) - Len(after)), Digit \cup {"-", "?"})

\* A section of one of the inputs 1..k defines the function name.
DefinedUpTo(k, name) ==
  \E p \in Places("globl") \cup Places("internal") : p[1] <= k /\ At(p).name = name

\* The decimal ID of a name the tables hold.
IdText(self, name) ==
  IF Head(name) = ":" THEN to_string(self.intrefs[name]) ELSE u32_to_string(self.xrefs[name])

C20_LaterInputWitness ==
  /\ libs = <<EpCallsFoo>>
  /\ source = FooCallsEp
  /\ input = 1
  /\ InSecondPass(1)
  /\ frame.locals.obj_body = <<"\t", "C", "A", "L", "L", " ", "?", "?", "?", "\n">>

\* C20, the same input: the second pass has replaced the reference of foo
\* to itself by its ID.
C20_SameInputWitness ==
  /\ input = Len(Inputs)
  /\ InSecondPass(1)
  /\ JustRead.text = <<"\t", "J", "M", "P", " ", "$", "f", "o", "o", "$", "\n">>
  /\ EndsWith(frame.locals.obj_body, <<"\t", "J", "M", "P", " ", "7", "4", "0", "7", "3", "4", "0", "5", "9", "\n">>)

(***************************************************************************)
(* The two passes.  Next to the sections of the label references the       *)
(* primary source may define the function bar, whose one body line holds   *)
(* two references.                                                         *)
(***************************************************************************)
BarCallsBoth == FunctionSection(<<"b", "a", "r">>, <<Body(<<"\t", "C", "A", "L", "L", " ", "$", "f", "o", "o", "$", " ", "I", "F", " ", "$", ":", "e", "p", "$", " ", "N", "O", "P", "\n">>)>>)

PassLibraries == Libraries({EpCallsFoo})

PassSources == Files({FooCallsEp, SelectorCallsBoth, BarCallsBoth})

InitPasses == InitHandlers /\ InitParse(PassLibraries, PassSources)

SpecPasses == InitPasses /\ [][NextParse]_vars

\* The body lines of a sequence of lines, every reference replaced.
RECURSIVE SubstitutedLines(_, _)
SubstitutedLines(self, some) ==
  IF some = <<>> THEN <<>>
  ELSE (IF Head(some).role = "body" THEN Substituted(self, Head(some).text) ELSE <<>>)
         \o SubstitutedLines(self, Tail(some))

\* The body written for the section opened by line i of file with every
\* reference replaced.
SubstitutedBody(self, file, i) ==
  Chomp(SubstitutedLines(self, SubSeq(file, i + 1, SectionEnd(file, i) - 1)))

\* The body the engine holds for the function whose section opens at p.
StoredBody(p) ==
  IF At(p).role = "globl"
  THEN engine.globals[At(p).name].dtype.body
  ELSE internals(engine)[engine.aliases[At(p).name]]

FunctionSections == Places("globl") \cup Places("internal")

\* The second pass over input k has just ended.
SecondPassEnded(k) ==
  \/ outcome.state = "running" /\ input = k + 1 /\ frame.first_pass /\ LinesRead = 0
  \/ PassesDone /\ k = Len(Inputs)

\* A function section flushed in the first pass is stored as written, its
\* references in place.
FirstPassStoresAsWritten ==
  \A p \in FunctionSections :
    JustFlushed(p, TRUE) => StoredBody(p) = Written(Inputs[p[1]], p[2])

\* When the second pass over an input has ended the body of every function
\* of the input is the text written with every reference replaced, and the
\* selector of the input has been captured.
SecondPassStoresSubstituted ==
  \A k \in DOMAIN Inputs :
    SecondPassEnded(k) =>
      /\ \A p \in FunctionSections :
           p[1] = k => StoredBody(p) = SubstitutedBody(engine, Inputs[k], p[2])
      /\ (\E p \in Places("selector") : p[1] = k) => entry(engine) # <<>>

\* No step taken in a first pass changes entry_point.
FirstPassKeepsEntry == frame.first_pass => engine'.entry_point = engine.entry_point

\* C21: pass 1 over an input never sets entry_point and stores every
\* function body with its references in place; pass 2 captures the selector
\* and, when it ends, every global and internal function body of the input
\* is the text with its references replaced.
C21_SecondPassSubstitutes ==
  /\ [](FirstPassStoresAsWritten /\ SecondPassStoresSubstituted)
  /\ [][FirstPassKeepsEntry]_vars

\* What does hold of C21: the first pass leaves entry_point alone and stores
\* the bodies as written.
C21_FirstPassCollectsOnly ==
  /\ []FirstPassStoresAsWritten
  /\ [][FirstPassKeepsEntry]_vars

\* Where C21 fails: the second pass over the primary source has ended and
\* the body of bar is cut after its first reference.
C21_BodyCutAfterFirstReference ==
  /\ libs = <<>>
  /\ source = FooCallsEp \o BarCallsBoth
  /\ PassesDone
  /\ engine.globals[<<"b", "a", "r">>].dtype.body = <<"\t", "C", "A", "L", "L", " ", "7", "4", "0", "7", "3", "4", "0", "5", "9", " ", "I", "F">>

(***************************************************************************)
(* Sections.  The primary source is made of a selector, the function foo,  *)
(* the internal function :ep and a data section; a library may hold the    *)
(* function bar.  No line holds a reference.                               *)
(***************************************************************************)
DataLine == Line("data", <<>>, 0, <<".", "d", "a", "t", "a", "\n">>)

DataBlock == <<DataLine, Value(4, <<"\t", ".", "l", "o", "n", "g", " ", "1", "\n">>)>>

SectionLibraries == Libraries({BarFunction})

SectionSources == Files({MainSelector, FooFunction, EpInternal, DataBlock})

InitSections == InitHandlers /\ InitParse(SectionLibraries, SectionSources)

SpecSections == InitSections /\ [][NextParse]_vars

\* The section name and the object name an opener leaves to the lines
\* after it.
SectionOf(line, first_pass) ==
  CASE line.role = "globl" -> GLOBL
    [] line.role = "internal" -> INTERNAL
    [] line.role = "data" -> DATA
    [] line.role = "selector" -> IF first_pass THEN "" ELSE SELECTOR

ObjectOf(line) == IF line.role \in {"globl", "internal"} THEN line.name ELSE <<>>

\* The number of the last opener among the lines 1..j of file, 0 without.
LastOpener(file, j) ==
  LET openers == {i \in 1..j : IsOpener(file[i])}
  IN IF openers = {} THEN 0 ELSE Greatest(openers)

\* What the pass carries for the next flush is the section of the last
\* opener read and the body lines read since that opener, and nothing of
\* the sections before it.
CarriesOpenSection ==
  outcome.state = "running" =>
    LET o == LastOpener(Reading, LinesRead)
    IN /\ frame.locals.obj_body = TextOf(SubSeq(Reading, o + 1, LinesRead), {"body", "value"})
       /\ frame.locals.section_name =
            (IF o = 0 THEN "" ELSE SectionOf(Reading[o], frame.first_pass))
       /\ frame.locals.obj_name = (IF o = 0 THEN <<>> ELSE ObjectOf(Reading[o]))

\* The flush of a section, at the next opener or at the end of the input,
\* has stored the body written for it.
FlushStoresSection ==
  /\ \A p \in FunctionSections : \A first_pass \in BOOLEAN :
       JustFlushed(p, first_pass) => StoredBody(p) = Written(Inputs[p[1]], p[2])
  /\ \A p \in Places("selector") :
       JustFlushed(p, FALSE) => entry(engine) = Written(Inputs[p[1]], p[2])

\* What update writes.
Tables(self) == <<self.xrefs, self.intrefs, self.internals, self.signed, self.entry_point>>

\* The turn of a line that opens no section flushes nothing.
OtherLinesFlushNothing ==
  (/\ outcome.state = "running"
   /\ LinesRead < Len(Reading)
   /\ ~IsOpener(Reading[LinesRead + 1])) => Tables(engine') = Tables(engine)

\* C22: in each pass every section is flushed to update once, with the body
\* lines read since its own opener, at the next opener or at the end of the
\* input, where the last section is flushed; no other line flushes.
C22_SectionsFlushedOnceInOrder ==
  /\ [](CarriesOpenSection /\ FlushStoresSection)
  /\ [][OtherLinesFlushNothing]_vars

\* C22 witness: both passes over the library and over the selector and foo
\* are done: the selector was flushed at the opener of foo, foo and the bar
\* of the library at the end of their inputs.
C22_Witness ==
  /\ libs = <<BarFunction>>
  /\ source = MainSelector \o FooFunction
  /\ outcome = Succeeded
  /\ entry(engine) = <<"\t", "S", "E", "T", "C", "P", "0">>
  /\ globals(engine) = {<<calc_func_id(<<"f", "o", "o">>), <<"\t", "A", "C", "C", "E", "P", "T", "\n", "\t", "R", "E", "T">>>>,
                        <<calc_func_id(<<"b", "a", "r">>), <<"\t", "N", "O", "P">>>>}

\* C22, a section without a table: the data section that follows :ep has
\* been opened, :ep flushed, and its line is carried for the flush at the
\* end of the input.
C22_DataSectionWitness ==
  /\ source = EpInternal \o DataBlock
  /\ outcome.state = "running"
  /\ input = Len(Inputs)
  /\ LinesRead = 5
  /\ frame.locals.section_name = DATA
  /\ frame.locals.obj_body = <<"\t", ".", "l", "o", "n", "g", " ", "1", "\n">>
  /\ internals(engine) = (0 :> <<"\t", "P", "U", "S", "H", "I", "N", "T", " ", "1">>)

(***************************************************************************)
(* The second pass and the tables.  The primary source defines :ep without *)
(* an alias of its own, a selector followed by an alias of :ep, the        *)
(* function foo and the data object e; a library may alias :ep to 3.       *)
(***************************************************************************)
SelectorThenAlias == MainSelector \o <<Alias(<<":", "e", "p">>, 0, <<"0">>)>>

RepassLibraries == Libraries({EpAliasOnly})

RepassSources == Files({EpUnaliased, SelectorThenAlias, FooFunction, NoValues})

InitRepass == InitHandlers /\ InitParse(RepassLibraries, RepassSources)

SpecRepass == InitRepass /\ [][NextParse]_vars

\* The engine after parse_code has read the lines j.. of file and flushed
\* the last section, for a pass that raises no fault.
RECURSIVE EngineAfterLines(_, _, _, _, _)
EngineAfterLines(self, locals, file, j, first_pass) ==
  IF j > Len(file)
  THEN parse_code_end(self, locals, first_pass).self
  ELSE LET read(turn) == EngineAfterLines(turn.self, turn.locals, file, j + 1, first_pass)
       IN read(parse_code_line(self, locals, file[j].text, first_pass))

EngineAfterPass(self, file, first_pass) ==
  EngineAfterLines(self, parse_code_locals, file, 1, first_pass)

\* The engine as the first pass over input k left it, the inputs before it
\* read in both passes.
RECURSIVE EngineAfterFirstPass(_)
EngineAfterFirstPass(k) ==
  IF k = 1
  THEN EngineAfterPass(ParseEngine_new, Inputs[1], TRUE)
  ELSE EngineAfterPass(
         EngineAfterPass(EngineAfterFirstPass(k - 1), Inputs[k - 1], FALSE),
         Inputs[k], TRUE)

\* The value lists of the data objects.
ValueLists(self) ==
  [n \in {m \in DOMAIN self.globals : self.globals[m].dtype.tag = "Data"} |->
     self.globals[n].dtype.values]

\* C23: the second pass over an input leaves the symbol tables as the first
\* pass over it left them: the keys and IDs of xrefs, intrefs, aliases and
\* signed, the keys of internals and globals, and the value list of every
\* data object.
C23_SecondPassKeepsTables ==
  \A k \in DOMAIN Inputs :
    SecondPassEnded(k) =>
      LET kept(before) ==
            /\ engine.xrefs = before.xrefs
            /\ engine.intrefs = before.intrefs
            /\ engine.aliases = before.aliases
            /\ engine.signed = before.signed
            /\ DOMAIN engine.internals = DOMAIN before.internals
            /\ DOMAIN engine.globals = DOMAIN before.globals
            /\ ValueLists(engine) = ValueLists(before)
      IN kept(EngineAfterFirstPass(k))

\* Where C23 fails: the library aliases :ep to 3 and the primary source
\* aliases it to 0 after the section of :ep is closed; the first pass stored
\* :ep under 3, the second pass has stored it under 0 as well.
C23_SecondPassStoresUnderNewAlias ==
  /\ libs = <<EpAliasOnly>>
  /\ source = EpUnaliased \o SelectorThenAlias
  /\ outcome = Succeeded
  /\ EngineAfterFirstPass(2).intrefs = (<<":", "e", "p">> :> 3)
  /\ DOMAIN EngineAfterFirstPass(2).internals = {3}
  /\ engine.intrefs = (<<":", "e", "p">> :> 0)
  /\ DOMAIN engine.internals = {0, 3}

(***************************************************************************)
(* The shape of the table: the nodes under a root.                         *)
(***************************************************************************)

\* The bytes of a node whose slot is a Subset, and the indexes they hold.
SubsetBytes(self) == {code \in Byte : self.directs[code].tag = "Subset"}

SubsetIndexes(self) == {self.directs[code].index : code \in SubsetBytes(self)}

\* Every Subset slot of the node holds the index of one of its children, and
\* every child is held by exactly one slot; the same for every child.
RECURSIVE TreeShaped(_)
TreeShaped(self) ==
  /\ SubsetIndexes(self) = 0..(Len(self.subsets) - 1)
  /\ Cardinality(SubsetBytes(self)) = Len(self.subsets)
  /\ \A i \in DOMAIN self.subsets : TreeShaped(self.subsets[i])

\* The number of nodes of the longest chain of Subsets, the node counted.
RECURSIVE Depth(_)
Depth(self) ==
  IF self.subsets = <<>> THEN 1
  ELSE 1 + Greatest({Depth(self.subsets[i]) : i \in DOMAIN self.subsets})

\* A call that succeeds leaves every Subset slot of the root and every
\* child already stored as they were.
SubsetsKept ==
  (~IsPanic(cp0) /\ ~IsPanic(cp0')) =>
    /\ \A code \in SubsetBytes(cp0) : cp0'.directs[code] = cp0.directs[code]
    /\ \A i \in DOMAIN cp0.subsets : i \in DOMAIN cp0'.subsets /\ cp0'.subsets[i] = cp0.subsets[i]

\* C24: while the code-page-0 table is built by its chains of set, set_range
\* and add_subset, and when it is finished, the nodes form a tree: every
\* Subset slot holds an index below the length of the subsets of its node,
\* no two slots hold the same child, no later call changes an index stored,
\* and no chain of Subsets is longer than 3 nodes with the root.
\* The table is looked at after each step of the construction and when it
\* is finished; a lookup takes the table by shared reference and is no call
\* of the construction.
C24_NodesFormTree ==
  /\ []((call = "idle" /\ ~IsPanic(cp0)) => TreeShaped(cp0) /\ Depth(cp0) <= 3)
  /\ [][built' # built => SubsetsKept]_vars

\* C24 witness: the finished table, with the Subset of 0xB6 under the
\* Subset of 0xB7 as its chain of 3 nodes.
C24_Witness ==
  /\ Built
  /\ Depth(cp0) = 3
  /\ cp0.directs[\HB7].tag = "Subset"
  /\ cp0.subsets[cp0.directs[\HB7].index + 1].directs[\HB6].tag = "Subset"
  /\ Cardinality(SubsetBytes(cp0)) = Len(cp0.subsets)

(***************************************************************************)
(* The quiet opcodes: the sub-table behind the root byte 0xB7.             *)
(***************************************************************************)

\* The child of a node behind the byte code, a new node when the slot is no
\* Subset.
ChildAt(self, code) ==
  IF self.directs[code].tag = "Subset"
  THEN self.subsets[self.directs[code].index + 1]
  ELSE Handlers_new

\* The node assigns the byte: its slot is a Subset or a loader other than
\* the one of a new node.
Assigns(self, code) == self.directs[code] # Direct("load_unknown")

AssignedBytes(self) == {code \in Byte : Assigns(self, code)}

\* The bytes of the arithmetic and comparison groups of the root.
ArithmeticAndComparison == \HA0..\HC7

\* The bytes of these groups the sub-table of 0xB7 does not hold: its own
\* prefix, ISNAN, CHKNAN and the prefix of the cell comparisons.
NotMirrored == {\HB7, \HC4, \HC5, \HC7}

\* C25 as claimed: for every byte of 0xA0..0xC7 the root assigns the byte
\* exactly when the sub-table of 0xB7 assigns it, with the same kind of
\* slot, and the table of 0xB6 under 0xB7 assigns the bytes the table of
\* 0xB6 of the root assigns.
C25_QuietMirrorsAll ==
  (Built /\ call = "idle") =>
    LET mirrors(quiet) ==
          /\ \A code \in ArithmeticAndComparison :
               /\ Assigns(cp0, code) <=> Assigns(quiet, code)
               /\ cp0.directs[code].tag = quiet.directs[code].tag
          /\ AssignedBytes(ChildAt(quiet, \HB6)) = AssignedBytes(ChildAt(cp0, \HB6))
    IN mirrors(ChildAt(cp0, \HB7))

\* C25 as amended: the sub-table of 0xB7 assigns exactly the bytes of
\* 0xA0..0xC3 the root assigns, 0xB7 itself left out, with the same kind of
\* slot; it holds nothing for 0xC4, 0xC5 and 0xC7, which the root assigns;
\* and the table of 0xB6 under 0xB7 assigns the bytes the table of 0xB6 of
\* the root assigns.
C25_QuietMirrorsUpToC3 ==
  (Built /\ call = "idle") =>
    LET mirrors(quiet) ==
          /\ AssignedBytes(quiet) =
               (AssignedBytes(cp0) \cap ArithmeticAndComparison) \ NotMirrored
          /\ \A code \in AssignedBytes(quiet) :
               /\ code <= \HC3
               /\ cp0.directs[code].tag = quiet.directs[code].tag
          /\ NotMirrored \subseteq AssignedBytes(cp0)
          /\ AssignedBytes(ChildAt(quiet, \HB6)) = AssignedBytes(ChildAt(cp0, \HB6))
          /\ AssignedBytes(ChildAt(cp0, \HB6)) = (\H00..\H03) \cup (\H08..\H0B)
    IN mirrors(ChildAt(cp0, \HB7))

\* C25 witness: in the finished table the root and the sub-table of 0xB7
\* hold the signaling and the quiet ADD at 0xA0, and only the root holds
\* ISNAN at 0xC4.
C25_Witness ==
  /\ Built
  /\ cp0.directs[\HA0] = Direct("load_add::<Signaling>")
  /\ ChildAt(cp0, \HB7).directs[\HA0] = Direct("load_add::<Quiet>")
  /\ cp0.directs[\HC4] = Direct("load_isnan")
  /\ ~Assigns(ChildAt(cp0, \HB7), \HC4)

(***************************************************************************)
(* The dispatch paths of a loader.                                         *)
(***************************************************************************)

\* The pairs of a byte path and the loader get_handler returns for it, the
\* paths of unassigned slots left out.
RECURSIVE Resolves(_)
Resolves(self) ==
  {<<(<<code>>), self.directs[code].handler>> :
     code \in {b \in AssignedBytes(self) : self.directs[b].tag = "Direct"}}
    \cup UNION {{<<(<<code>>) \o p[1], p[2]>> : p \in Resolves(ChildAt(self, code))} :
                 code \in SubsetBytes(self)}

\* The paths that resolve to the loader.
PathsTo(pairs, handler) == {p[1] : p \in {q \in pairs : q[2] = handler}}

\* The path of the node a path ends in: the path without its last byte.
NodeOf(path) == SubSeq(path, 1, Len(path) - 1)

\* The loaders registered in more than one node of the table.
InSeveralNodes(pairs) ==
  LET places == {<<NodeOf(p[1]), p[2]>> : p \in pairs}
      several(handler) == Cardinality({n \in places : n[2] = handler}) > 1
  IN {handler \in {n[2] : n \in places} : several(handler)}

\* The loaders the chains register in the root and again in a sub-table.
RegisteredTwice ==
  {"load_xchg3", "load_sti", "load_stu", "load_stref", "load_endcst",
   "load_stslice", "load_ldi", "load_ldu", "load_ldslice", "load_callxargs"}

\* C26 as claimed: in the finished code-page-0 table every loader is
\* registered at exactly one dispatch path: no two distinct byte paths
\* resolve to the same loader.
C26_OnePathPerLoader ==
  (Built /\ call = "idle") =>
    LET one(pairs) ==
          \A handler \in {p[2] : p \in pairs} :
            Cardinality(PathsTo(pairs, handler)) = 1
    IN one(Resolves(cp0))

\* C26 as amended: every dispatch path resolves to one loader, and a loader
\* may have several paths: set_range gives it one path for every byte of
\* the range, a loader may be set at several bytes of a node (LSHIFT at 0xAA
\* and 0xAC), and ten loaders are registered in two nodes, the root and one
\* sub-table of the root (XCHG3 at 0x40..0x4F and at 0x54 0x00..0x0F).
C26_OneLoaderPerPath ==
  (Built /\ call = "idle") =>
    LET holds(pairs) ==
          /\ Cardinality({p[1] : p \in pairs}) = Cardinality(pairs)
          /\ InSeveralNodes(pairs) = RegisteredTwice
          /\ \A handler \in RegisteredTwice :
               \E code \in Byte :
                 {NodeOf(path) : path \in PathsTo(pairs, handler)} = {<<>>, <<code>>}
          /\ PathsTo(pairs, "load_xchg3") =
               {<<code>> : code \in \H40..\H4F} \cup {<<\H54, code>> : code \in \H00..\H0F}
          /\ PathsTo(pairs, "load_push_simple") = {<<code>> : code \in \H20..\H2F}
          /\ PathsTo(pairs, "load_lshift::<Signaling>") = {<<\HAA>>, <<\HAC>>}
          /\ PathsTo(pairs, "load_nop") = {<<\H00>>}
    IN holds(Resolves(cp0))

\* C26 witness: the finished table returns XCHG3 for the one-byte path 0x40
\* and for the two-byte path 0x54 0x00.
C26_Witness ==
  /\ Built
  /\ call = "idle"
  /\ get_handler(cp0, [bytes |-> <<\H40>>, bits |-> 0]).handler = "load_xchg3"
  /\ get_handler(cp0, [bytes |-> <<\H54, \H00>>, bits |-> 0]).handler = "load_xchg3"

(***************************************************************************)
(* The Subset slots of the root.                                           *)
(***************************************************************************)

\* The first bytes of the opcodes of two or more bytes.
TwoByteFirstBytes ==
  {\H54, \H5F, \H6C, \H6F, \H83, \HB6, \HB7, \HC7, \HCF, \HD7, \HDB,
   \HE3, \HED, \HF1, \HF2, \HF4, \HF8, \HF9, \HFA, \HFB, \HFE, \HFF}

\* C27: in the finished code-page-0 table the Subset slots of the root are
\* the bytes 0x54, 0x5F, 0x6C, 0x6F, 0x83, 0xB6, 0xB7, 0xC7, 0xCF, 0xD7,
\* 0xDB, 0xE3, 0xED, 0xF1, 0xF2, 0xF4, 0xF8, 0xF9, 0xFA, 0xFB, 0xFE and
\* 0xFF and every other slot of the root is Direct, a loader or Unknown;
\* get_handler reads a second byte for these first bytes only: after any
\* other first byte it returns with one byte read, after one of these it
\* has read two bytes or more, or fails for want of a byte.
C27_RootSubsets ==
  /\ (Built /\ call = "idle") =>
       /\ SubsetBytes(cp0) = TwoByteFirstBytes
       /\ \A code \in Byte \ TwoByteFirstBytes : cp0.directs[code].tag = "Direct"
       /\ Len(cp0.subsets) = Cardinality(TwoByteFirstBytes)
  /\ (Returned /\ given.bytes # <<>>) =>
       IF Head(given.bytes) \in TwoByteFirstBytes
       THEN IF loaded.ok
            THEN Consumed >= 2
            ELSE loaded.err = "get_next_byte" /\ Len(given.bytes) \in 1..2
       ELSE loaded.ok /\ Consumed = 1

\* C27 witness: get_handler has read the two bytes 0xF4 0x00 of the
\* dictionary sub-table.
C27_Witness ==
  /\ Returned
  /\ loaded.ok
  /\ given.bytes = <<\HF4, \H00>>
  /\ Consumed = 2
  /\ cp0.directs[\HF4].tag = "Subset"

\* C27, a first byte outside the list: 0xF0 is read alone, the byte after it
\* is left in the slice.
C27_DirectWitness ==
  /\ Returned
  /\ loaded.ok
  /\ given.bytes = <<\HF0, 0>>
  /\ rest.bytes = <<0>>
  /\ cp0.directs[\HF0].tag = "Direct"

(***************************************************************************)
(* The ranges of set_range at the upper end of a node.  set_range and set  *)
(* are applied to a new node in any order, with the ranges, bytes and      *)
(* loaders of the sub-tables of 0xFE and 0xFF, which end in                *)
(* set_range(..0xFF) followed by set(0xFF).                                *)
(***************************************************************************)

\* The ranges lo..hi given to set_range, hi excluded.
UpperRanges == {<<\HF0, \HFF>>, <<\HF1, \HFF>>, <<\HFE, \HFF>>, <<\H00, \HF0>>}

UpperCodes == {\HF0, \HFE, \HFF}

UpperLoaders == {"load_dump_string", "load_setcp"}

UpperSetRange ==
  \E codes \in UpperRanges, handler \in UpperLoaders :
    Applies(<<"set_range", codes[1], codes[2], handler>>,
            set_range(cp0, codes[1], codes[2], handler))

UpperSet ==
  \E code \in UpperCodes, handler \in UpperLoaders :
    Applies(<<"set", code, handler>>, set(cp0, code, handler))

NextUpper == UpperSetRange \/ UpperSet

SpecUpper == InitNode /\ [][NextUpper]_vars

\* C28: set_range(lo..hi, loader) on a node whose slots lo..hi-1 are all
\* Unknown succeeds, registers the loader at the bytes b with lo <= b < hi
\* and leaves the slot hi and every other slot as it was; the slot 0xFF is
\* never written by set_range, it changes only by a set(0xFF, ...).
C28_RangeExcludesUpperBound ==
  call # <<"new">> =>
    /\ (call[1] = "set_range" /\ \A code \in call[2]..(call[3] - 1) : ~Occupied(given, code)) =>
         /\ ~IsPanic(cp0)
         /\ \A code \in Byte :
              cp0.directs[code] = IF call[2] <= code /\ code < call[3]
                                  THEN Direct(call[4])
                                  ELSE given.directs[code]
         /\ cp0.directs[call[3]] = given.directs[call[3]]
         /\ cp0.subsets = given.subsets
    /\ (call[1] = "set_range" /\ ~IsPanic(cp0)) =>
         cp0.directs[\HFF] = given.directs[\HFF]
    /\ (~IsPanic(cp0) /\ cp0.directs[\HFF] # given.directs[\HFF]) =>
         /\ call[1] = "set"
         /\ call[2] = \HFF

\* C28 witness: set_range(0xF0..0xFF) on a new node has registered the
\* loader at 0xF0 to 0xFE and left 0xFF Unknown.
C28_Witness ==
  /\ call = <<"set_range", \HF0, \HFF, "load_dump_string">>
  /\ given = Handlers_new
  /\ ~IsPanic(cp0)
  /\ cp0.directs[\HFE] = Direct("load_dump_string")
  /\ cp0.directs[\HFF] = Direct("load_unknown")

\* C28, the byte 0xFF: after the range a set(0xFF) has registered the loader
\* at the last slot.
C28_LastByteWitness ==
  /\ call = <<"set", \HFF, "load_dump_string">>
  /\ given.directs[\HFE] = Direct("load_dump_string")
  /\ ~Occupied(given, \HFF)
  /\ cp0.directs[\HFF] = Direct("load_dump_string")

(***************************************************************************)
(* The three sets of function IDs.                                         *)
(***************************************************************************)

\* The IDs the names of xrefs stand for.
XrefIds(self) == {self.xrefs[n] : n \in DOMAIN self.xrefs}

\* A section has just been flushed without a fault, or parse has returned
\* ok.
AfterFlush ==
  \/ outcome.state = "ok"
  \/ \E p \in Places("globl") \cup Places("selector") \cup Places("internal") :
       \E first_pass \in BOOLEAN : JustFlushed(p, first_pass)

\* The keys of globals(), the keys of signed() and the values of xrefs are
\* one set, and globals() holds for the ID of every name of xrefs the body
\* written for a global section of that name.
IdSetsAgree(self) ==
  /\ {g[1] : g \in globals(self)} = XrefIds(self)
  /\ DOMAIN signed(self) = XrefIds(self)
  /\ \A n \in DOMAIN self.xrefs :
       \E p \in Places("globl") :
         /\ At(p).name = n
         /\ {g \in globals(self) : g[1] = self.xrefs[n]}
              = {<<self.xrefs[n], Written(Inputs[p[1]], p[2])>>}

\* C29: after every flush and when parse has returned ok, the keys of
\* globals(), the keys of signed() and the values of xrefs are the same set
\* and globals() holds under the ID of every name of xrefs the body its
\* section was flushed with, wherever the `.type`, `.globl` and body lines
\* stand in the inputs.
C29_IdSetsAgree == AfterFlush => IdSetsAgree(engine)

\* The same for inputs in which every `.type` line follows the `.globl`
\* line of its function.
C29_IdSetsAgreeOfWholeSections ==
  (\A k \in DOMAIN Inputs : \A i \in DOMAIN Inputs[k] :
     Inputs[k][i].role = "type" => i > 1 /\ Inputs[k][i - 1].role = "globl")
    => C29_IdSetsAgree

\* C29, the diverging input: parse has returned ok, xrefs and signed() hold
\* the ID of bar, and globals() holds the ID 0 with an empty body.
C29_TypeLineDropsId ==
  /\ outcome.state = "ok"
  /\ libs = <<BarFunction>>
  /\ source = MainSelector \o BarTypedAgain
  /\ XrefIds(engine) = {calc_func_id(<<"b", "a", "r">>)}
  /\ DOMAIN signed(engine) = {calc_func_id(<<"b", "a", "r">>)}
  /\ globals(engine) = {<<(<<0, 0, 0, 0>>), <<>>>>}

(***************************************************************************)
(* The console tool: the subcommands call, run and deploy, which take the  *)
(* contract ABI from the command line or from the config file.             *)
(* call_contract and deploy_contract are recorded as they are called, with *)
(* the arguments they are given; what they return is not decided here.     *)
(***************************************************************************)

\* ArgMatches::value_of
value_of(m, name) == m[name]

\* Option::or
Option_or(self, optb) == IF self.some THEN self ELSE optb

\* Option::ok_or
Option_ok_or(self, err) ==
  IF self.some THEN [ok |-> TRUE, value |-> self.value, msg |-> ""]
  ELSE [ok |-> FALSE, value |-> "", msg |-> err]

AbiNotDefined == "ABI file not defined. Supply it in config file or command line."

KeypairNotDefined == "keypair file not defined. Supply it in config file or command line."

\* What a subcommand returns: Ok(()) or Err(msg).
Returns(state, msg) == [state |-> state, msg |-> msg]

\* The call of call_contract with its ABI, keys and local arguments.
call_contract(conf, abi, keys, local) ==
  [op |-> "call_contract", conf |-> conf, abi |-> abi, keys |-> keys, local |-> local]

\* The call of deploy_contract with its ABI and keys arguments.
deploy_contract(conf, abi, keys) ==
  [op |-> "deploy_contract", conf |-> conf, abi |-> abi, keys |-> Some(keys), local |-> FALSE]

\* What the contract operation called may return.
OperationReturns(op) == {Returns("ok", ""), Returns("err", op)}

\* A subcommand that has returned the fault msg before any call.
Refused(msg) == {[command |-> Returns("err", msg), invoked |-> <<>>]}

\* A subcommand that has called the contract operation and returns what it
\* returned.
Called(operation) ==
  {[command |-> r, invoked |-> <<operation>>] : r \in OperationReturns(operation.op)}

\* send_command with the ABI of the config file tried before --abi.
send_command_config_first(m, conf) ==
  LET with(abi, keys) ==
        IF ~abi.ok THEN Refused(abi.msg)
        ELSE Called(call_contract(conf, abi.value, keys, FALSE))
  IN with(Option_ok_or(Option_or(conf.abi_path, value_of(m, "ABI")), AbiNotDefined),
          Option_or(value_of(m, "SIGN"), conf.keys_path))

\* send_command: the ABI is --abi, or else the abi_path of the config, or
\* else the command fails; the keys are --sign or else the keys_path of the
\* config, or none.
send_command(m, conf) ==
  LET with(abi, keys) ==
        IF ~abi.ok THEN Refused(abi.msg)
        ELSE Called(call_contract(conf, abi.value, keys, FALSE))
  IN with(Option_ok_or(Option_or(value_of(m, "ABI"), conf.abi_path), AbiNotDefined),
          Option_or(value_of(m, "SIGN"), conf.keys_path))

\* run_command: the ABI as in send_command, no keys, a local call.
run_command(m, conf) ==
  LET with(abi) ==
        IF ~abi.ok THEN Refused(abi.msg)
        ELSE Called(call_contract(conf, abi.value, Absent, TRUE))
  IN with(Option_ok_or(Option_or(value_of(m, "ABI"), conf.abi_path), AbiNotDefined))

\* deploy_command: the ABI as in send_command, then the keys, which the
\* command cannot do without.
deploy_command(m, conf) ==
  LET with(abi, keys) ==
        IF ~abi.ok THEN Refused(abi.msg)
        ELSE IF ~keys.ok THEN Refused(keys.msg)
        ELSE Called(deploy_contract(conf, abi.value, keys.value))
  IN with(Option_ok_or(Option_or(value_of(m, "ABI"), conf.abi_path), AbiNotDefined),
          Option_ok_or(Option_or(value_of(m, "SIGN"), conf.keys_path), KeypairNotDefined))

\* The values of --abi and --sign, and of abi_path and keys_path.
AbiArgs == {Absent, Some("cli.abi.json"), Some("")}

SignArgs == {Absent, Some("cli.keys.json")}

AbiPaths == {Absent, Some("conf.abi.json"), Some("")}

KeysPaths == {Absent, Some("conf.keys.json")}

\* main_internal has parsed the command line of one of the three
\* subcommands (run has no --sign) and read the config file.
InitCli ==
  /\ cp0 = Handlers_new
  /\ built = 0
  /\ call = "idle"
  /\ given = EmptySlice
  /\ rest = EmptySlice
  /\ loaded = NoHandler
  /\ NoParse
  /\ matches \in [subcommand : {"call", "run", "deploy"}, ABI : AbiArgs, SIGN : SignArgs]
  /\ matches.subcommand = "run" => matches.SIGN = Absent
  /\ config \in [abi_path : AbiPaths, keys_path : KeysPaths]
  /\ command = NotRun
  /\ invoked = <<>>

\* main_internal hands the matches of the subcommand to its function and
\* returns what it returns.
Dispatch(name, returns) ==
  /\ command = NotRun
  /\ matches.subcommand = name
  /\ \E r \in returns :
       /\ command' = r.command
       /\ invoked' = invoked \o r.invoked
  /\ UNCHANGED <<matches, config, hvars, pvars>>

SendCommand == Dispatch("call", send_command(matches, config))

RunCommand == Dispatch("run", run_command(matches, config))

DeployCommand == Dispatch("deploy", deploy_command(matches, config))

NextCli == SendCommand \/ RunCommand \/ DeployCommand

SpecCli == InitCli /\ [][NextCli]_vars

\* C30: when call, run or deploy has returned, the contract operation was
\* called at most once, with the ABI of --abi when it was given and with
\* the abi_path of the config otherwise; with neither of them the command
\* has returned the error "ABI file not defined. Supply it in config file
\* or command line." and has called neither call_contract nor
\* deploy_contract.  With an ABI, call and run have called call_contract,
\* and deploy has called deploy_contract unless it has no keys.
C30_AbiFromCommandLineOrConfig ==
  command # NotRun =>
    LET holds(cli, conf) ==
          /\ Len(invoked) <= 1
          /\ invoked # <<>> =>
               /\ cli.some \/ conf.some
               /\ invoked[1].abi = IF cli.some THEN cli.value ELSE conf.value
               /\ invoked[1].op = IF matches.subcommand = "deploy"
                                  THEN "deploy_contract" ELSE "call_contract"
               /\ invoked[1].local = (matches.subcommand = "run")
          /\ (~cli.some /\ ~conf.some) =>
               /\ command = Returns("err", AbiNotDefined)
               /\ invoked = <<>>
          /\ ((cli.some \/ conf.some) /\ matches.subcommand \in {"call", "run"}) =>
               invoked # <<>>
          /\ ((cli.some \/ conf.some) /\ matches.subcommand = "deploy") =>
               (invoked = <<>> <=> (~matches.SIGN.some /\ ~config.keys_path.some))
    IN holds(matches.ABI, config.abi_path)

\* C30 witness: call with --abi and with an abi_path in the config has
\* called call_contract with the ABI of the command line.
C30_Witness ==
  /\ command = Returns("ok", "")
  /\ matches.subcommand = "call"
  /\ matches.ABI = Some("cli.abi.json")
  /\ config.abi_path = Some("conf.abi.json")
  /\ Len(invoked) = 1
  /\ invoked[1].abi = "cli.abi.json"

\* C30, the config: run without --abi has called call_contract with the
\* abi_path of the config.
C30_ConfigWitness ==
  /\ command # NotRun
  /\ matches.subcommand = "run"
  /\ matches.ABI = Absent
  /\ Len(invoked) = 1
  /\ invoked[1].abi = "conf.abi.json"

\* C30, no ABI: deploy without --abi and without abi_path has returned the
\* error and called nothing.
C30_RefusedWitness ==
  /\ command = Returns("err", AbiNotDefined)
  /\ matches.subcommand = "deploy"
  /\ matches.ABI = Absent
  /\ config.abi_path = Absent
  /\ matches.SIGN.some
  /\ invoked = <<>>

====
